---------------------------- MODULE Spec2Model ----------------------------
(***************************************************************************)
(* AnyChess: the position codec (src/pages/index.tsx), the one-ply bot     *)
(* (lib/bot), the session of the page in its two versions                  *)
(* (src/pages/index.tsx and src/unnamed/part_001) and two sessions         *)
(* synchronized through a room.                                            *)
(*                                                                         *)
(* Conventions.  A JavaScript string that the code builds, splits or walks *)
(* character by character is a sequence of one-character strings           *)
(* (<<"e","6">> is 'e6'); a board square, a piece code ('wP'), a side        *)
(* ('w') and a placement symbol ('K') are such sequences too.  A PosObj is *)
(* a function whose DOMAIN is the set of keys present in the object.       *)
(* `undefined` and `null` are the values Undefined and Null, which no      *)
(* sequence of characters equals.                                          *)
(***************************************************************************)
EXTENDS Integers, Sequences, FiniteSets, TLC

VARIABLES
  fen,          \* useState fen: the current exchange string
  edit,         \* useState edit
  editPos,      \* useState editPos (PosObj)
  editTurn,     \* useState editTurn, 'w' or 'b'
  castleWK, castleWQ, castleBK, castleBQ,   \* the four castling check boxes
  previewEP,    \* const previewEP = autoDetectEnPassant(editPos, editTurn)
  encoded,      \* the value posObjToFen returned last (None before a call)
  decoded,      \* the value fenToPosObj returned last, or the throw
  playMode,     \* useState playMode: "none", "bot" or "online"
  myColor,      \* useState myColor, 'w' or 'b'
  chess,        \* chessRef.current: the oracle's position, [board, turn]
  moves,        \* what chess.moves({ verbose: true }) answers for `chess`
  best,         \* the value pickBotMove returned last (None before a call)
  channelRef,   \* channelRef.current is set
  sent,         \* the payloads handed to channelRef.current.send, in order
  handle,       \* the position of pickBotMove's own Chess when it returned
  mode,         \* useState mode: "strict" or "sandbox"
  status,       \* useState status: the message shown under the board
  shownTurn,    \* useState turn: the side shown as to move
  selectedPalette,  \* useState selectedPalette: a piece code or null
  joined,       \* useState joined
  page,         \* the page the session runs: "index" is src/pages/index.tsx,
                \* "part_001" is src/unnamed/part_001
  sandboxPos,   \* useState sandboxPos of part_001
  room,         \* how channelRef.current was opened: "none", "created", "joined"
  opened,       \* the channels opened so far, by how: their subscribe
                \* callbacks are registered
  oracleStrict, \* the oracle build also refuses castling rights without pieces
  returned,     \* what the last handler returned, where it returns a value
  event,        \* the handler that ran last, and its arguments
  steps,        \* handlers run so far
  peer,         \* the other session of the room, where two are studied:
                \* its state, its subscription and the messages delivered
  pc            \* position of the run in the specification at hand

vars == <<fen, edit, editPos, editTurn, castleWK, castleWQ, castleBK, castleBQ,
          previewEP, encoded, decoded, playMode, myColor, chess, moves, best,
          channelRef, sent, handle, mode, status, shownTurn, selectedPalette,
          joined, page, sandboxPos, room, opened, oracleStrict, returned, event,
          steps, peer, pc>>

editorVars == <<edit, editPos, editTurn, castleWK, castleWQ, castleBK, castleBQ>>
codecVars == <<previewEP, encoded, decoded>>
botVars == <<playMode, myColor, chess, moves, best, channelRef, sent, handle>>
sessionVars == <<mode, status, shownTurn, selectedPalette, joined, page,
                 sandboxPos, room, opened, oracleStrict, returned, event, steps,
                 peer>>

-----------------------------------------------------------------------------
(* Values *)

Undefined == <<"undefined">>
None == [none |-> TRUE]

FILES == <<"a", "b", "c", "d", "e", "f", "g", "h">>

RECURSIVE IndexOf(_, _, _)
IndexOf(seq, x, i) ==
  IF i > Len(seq) THEN -1
  ELSE IF seq[i] = x THEN i - 1
  ELSE IndexOf(seq, x, i + 1)

\* FILES.indexOf(f): 0-based, -1 when absent
fileIndex(f) == IndexOf(FILES, f, 1)

Digits == <<"0", "1", "2", "3", "4", "5", "6", "7", "8", "9">>
IsDigit(ch) == \E i \in 1..Len(Digits) : Digits[i] = ch
\* parseInt(ch, 10) of one decimal digit
parseInt(ch) == IndexOf(Digits, ch, 1)

\* String(n) of an integer
RECURSIVE NatStr(_)
NatStr(n) == IF n < 10 THEN <<Digits[n + 1]>>
             ELSE NatStr(n \div 10) \o <<Digits[(n % 10) + 1]>>
String(n) == IF n < 0 THEN <<"-">> \o NatStr(-n) ELSE NatStr(n)

\* FILES[i] inside a template literal: the letter, or 'undefined'
FileText(i) ==
  IF i \in 0..7 THEN <<FILES[i + 1]>>
  ELSE <<"u", "n", "d", "e", "f", "i", "n", "e", "d">>

\* `${FILES[f]}${r}`; the 64 names of the board are tabulated
SquareTable == [f \in 0..7 |-> [r \in 1..8 |-> FileText(f) \o String(r)]]
SquareName(f, r) ==
  IF f \in 0..7 /\ r \in 1..8 THEN SquareTable[f][r]
  ELSE FileText(f) \o String(r)

wK == <<"w", "K">>
wQ == <<"w", "Q">>
wR == <<"w", "R">>
wB == <<"w", "B">>
wN == <<"w", "N">>
wP == <<"w", "P">>
bK == <<"b", "K">>
bQ == <<"b", "Q">>
bR == <<"b", "R">>
bB == <<"b", "B">>
bN == <<"b", "N">>
bP == <<"b", "P">>

\* the palette
pieces == <<wK, wQ, wR, wB, wN, wP, bK, bQ, bR, bB, bN, bP>>
Pieces == {pieces[i] : i \in 1..Len(pieces)}

Ranks == 1..8
Squares == {SquareName(f, r) : f \in 0..7, r \in Ranks}

\* obj[sq] of a PosObj: the piece, or undefined
At(obj, sq) == IF sq \in DOMAIN obj THEN obj[sq] ELSE Undefined

EmptyPos == [sq \in {} |-> wK]

-----------------------------------------------------------------------------
(* Editing a PosObj *)

\* next[square] = piece
Put(pos, sq, piece) ==
  [k \in (DOMAIN pos) \cup {sq} |-> IF k = sq THEN piece ELSE pos[k]]

\* delete next[square]
Delete(pos, sq) == [k \in (DOMAIN pos) \ {sq} |-> pos[k]]

\* the object holding the entries of both (disjoint keys)
Merge(p, q) ==
  [k \in (DOMAIN p) \cup (DOMAIN q) |-> IF k \in DOMAIN p THEN p[k] ELSE q[k]]

Sq(f, r) == <<f>> \o String(r)

-----------------------------------------------------------------------------
(* Case conversion over the characters the model uses *)

LowerLetters == <<"k", "q", "r", "b", "n", "p", "w", "x", "a", "h">>
UpperLetters == <<"K", "Q", "R", "B", "N", "P", "W", "X", "A", "H">>

\* sym.toUpperCase() of one character; characters without case are unchanged
toUpperCase(ch) ==
  LET i == IndexOf(LowerLetters, ch, 1)
  IN IF i >= 0 THEN UpperLetters[i + 1] ELSE ch

-----------------------------------------------------------------------------
(* symbolToPiece, pieceToSymbol *)

\* `return v` of a handler
Return(v) == [value |-> v]

\* throw new Error(msg), as the value of a call that returns a string
Thrown(msg) == <<"throw", msg>>
\* the same throw leaving a call that returns an object
Threw(msg) == [threw |-> msg]
IsThrown(v) == "threw" \in DOMAIN v

PieceLetters == <<"K", "Q", "R", "B", "N", "P">>

\* the table lookup finding an entry for every letter
IsPieceLetter_AnyLetter(t) ==
  \E i \in 1..Len(UpperLetters) : UpperLetters[i] = t

\* map[t] is defined
IsPieceLetter(t) == \E i \in 1..Len(PieceLetters) : PieceLetters[i] = t

\* symbolToPiece with the colour test dropped: every symbol is white
symbolToPiece_AlwaysWhite(sym) ==
  LET t == toUpperCase(sym)
  IN IF ~IsPieceLetter(t) THEN Thrown("bad symbol") ELSE <<"w", t>>

\* the value returned, or Thrown('bad symbol')
symbolToPiece(sym) ==
  LET white == (sym = toUpperCase(sym))
      t == toUpperCase(sym)
  IN IF ~IsPieceLetter(t) THEN Thrown("bad symbol")
     ELSE <<IF white THEN "w" ELSE "b", t>>

pieceToSymbol(p) ==
  CASE p = wK -> <<"K">> [] p = wQ -> <<"Q">> [] p = wR -> <<"R">>
    [] p = wB -> <<"B">> [] p = wN -> <<"N">> [] p = wP -> <<"P">>
    [] p = bK -> <<"k">> [] p = bQ -> <<"q">> [] p = bR -> <<"r">>
    [] p = bB -> <<"b">> [] p = bN -> <<"n">> [] p = bP -> <<"p">>
    [] OTHER -> Undefined

-----------------------------------------------------------------------------
(* autoDetectEnPassant *)

Dash == <<"-">>

\* (left && obj[left] === capturer) || (right && obj[right] === capturer)
EpCanCapture(obj, idx, rank, capturer) ==
  LET left == IF idx > 0 THEN SquareName(idx - 1, rank) ELSE <<>>
      right == IF idx < 7 THEN SquareName(idx + 1, rank) ELSE <<>>
  IN \/ (left # <<>> /\ At(obj, left) = capturer)
     \/ (right # <<>> /\ At(obj, right) = capturer)

\* one of the two `for (const f of FILES)` loops, from the i-th file on
RECURSIVE EpLoop(_, _, _, _, _, _, _)
EpLoop(obj, rank, epRank, moved, capturer, i, cands) ==
  IF i > Len(FILES) THEN cands
  ELSE
    LET f == FILES[i]
        sq == <<f>> \o String(rank)
        idx == fileIndex(f)
        ep == <<f>> \o String(epRank)
    IN IF At(obj, sq) # moved
         THEN EpLoop(obj, rank, epRank, moved, capturer, i + 1, cands)
       ELSE IF At(obj, ep) # Undefined
         THEN EpLoop(obj, rank, epRank, moved, capturer, i + 1, cands)
       ELSE IF EpCanCapture(obj, idx, rank, capturer)
         THEN EpLoop(obj, rank, epRank, moved, capturer, i + 1, Append(cands, ep))
       ELSE EpLoop(obj, rank, epRank, moved, capturer, i + 1, cands)

\* the first candidate whenever there is one
EpResult_FirstOfAny(cands) == IF Len(cands) >= 1 THEN cands[1] ELSE Dash

\* return cands.length === 1 ? cands[0] : '-'
EpResult(cands) == IF Len(cands) = 1 THEN cands[1] ELSE Dash

autoDetectEnPassant(obj, turn) ==
  IF turn = <<"w">>
    THEN EpResult(EpLoop(obj, 5, 6, bP, wP, 1, <<>>))
    ELSE EpResult(EpLoop(obj, 4, 3, wP, bP, 1, <<>>))

-----------------------------------------------------------------------------
(* posObjToFen *)

Null == <<"null">>

\* `Pawns cannot be on rank ${r}. Promote them.`
PawnRankError(r) ==
  <<"Pawns cannot be on rank ">> \o String(r) \o <<". Promote them.">>
\* `Unknown piece: ${p}`
UnknownPieceError(p) == <<"Unknown piece: ">> \o p
\* `Place exactly one king per side (found W:${wK}, B:${bK}).`
KingCountError(w, b) ==
  <<"Place exactly one king per side (found W:">> \o String(w)
    \o <<", B:">> \o String(b) \o <<").">>

\* the pawn test looking at rank 8 only
PawnOnBackRank_Rank8Only(r, p) == r = 8 /\ (p = wP \/ p = bP)

\* (r === 1 || r === 8) && (p === 'wP' || p === 'bP')
PawnOnBackRank(r, p) == (r = 1 \/ r = 8) /\ (p = wP \/ p = bP)

\* if (empty) placement += String(empty)
FlushEmpty(placement, empty) ==
  IF empty # 0 THEN placement \o String(empty) ELSE placement

\* a '/' after every rank, rank 1 too
RankSeparator_AfterEvery(placement, r) == Append(placement, "/")

\* if (r !== 1) placement += '/'
RankSeparator(placement, r) ==
  IF r # 1 THEN Append(placement, "/") ELSE placement

\* The locals of the scan are [placement, empty, wK, bK]; an early return is
\* the object returned, which has the key "fen".
Returned(st) == "fen" \in DOMAIN st

\* the body of `for (let f = 0; f < 8; f++)` at file f of rank r
ScanSquare(obj, r, f, st) ==
  LET sq == SquareName(f, r)
      p == At(obj, sq)
  IN IF p = Undefined THEN [st EXCEPT !.empty = @ + 1]
     ELSE IF PawnOnBackRank(r, p)
       THEN [fen |-> Null, error |-> PawnRankError(r)]
     ELSE
       LET sym == pieceToSymbol(p)
       IN IF sym = Undefined
            THEN [fen |-> Null, error |-> UnknownPieceError(p)]
          ELSE [placement |-> FlushEmpty(st.placement, st.empty) \o sym,
                empty |-> 0,
                wK |-> st.wK + (IF sym = <<"K">> THEN 1 ELSE 0),
                bK |-> st.bK + (IF sym = <<"k">> THEN 1 ELSE 0)]

\* the inner loop from file f on
RECURSIVE ScanFiles(_, _, _, _)
ScanFiles(obj, r, f, st) ==
  IF Returned(st) \/ f >= 8 THEN st
  ELSE ScanFiles(obj, r, f + 1, ScanSquare(obj, r, f, st))

\* the body of `for (let r = 8; r >= 1; r--)`
ScanRank(obj, r, st) ==
  LET AfterRow(row) ==
        IF Returned(row) THEN row
        ELSE [row EXCEPT
                !.placement = RankSeparator(FlushEmpty(row.placement, row.empty), r)]
  IN AfterRow(ScanFiles(obj, r, 0, [st EXCEPT !.empty = 0]))

\* the outer loop going from rank 1 up
RECURSIVE ScanRanks_Upward(_, _, _)
ScanRanks_Upward(obj, r, st) ==
  IF Returned(st) \/ r < 1 THEN st
  ELSE ScanRanks_Upward(obj, r - 1, ScanRank(obj, 9 - r, st))

\* the outer loop from rank r down
RECURSIVE ScanRanks(_, _, _)
ScanRanks(obj, r, st) ==
  IF Returned(st) \/ r < 1 THEN st
  ELSE ScanRanks(obj, r - 1, ScanRank(obj, r, st))

\* let placement = ''; let wK = 0, bK = 0; and the two loops
ScanBoard(obj) ==
  ScanRanks(obj, 8, [placement |-> <<>>, empty |-> 0, wK |-> 0, bK |-> 0])

\* the king test refusing a missing king only
KingCountBad_MissingOnly(w, b) == w < 1 \/ b < 1

\* wK !== 1 || bK !== 1
KingCountBad(w, b) == w # 1 \/ b # 1

\* the castling field without the '-' fallback
CastleField_NoDash(castlingFlags) ==
  (IF castlingFlags.K THEN <<"K">> ELSE <<>>)
    \o (IF castlingFlags.Q THEN <<"Q">> ELSE <<>>)
    \o (IF castlingFlags.k THEN <<"k">> ELSE <<>>)
    \o (IF castlingFlags.q THEN <<"q">> ELSE <<>>)

\* (K ? 'K' : '') + (Q ? 'Q' : '') + (k ? 'k' : '') + (q ? 'q' : '') || '-'
CastleField(castlingFlags) ==
  LET s == (IF castlingFlags.K THEN <<"K">> ELSE <<>>)
           \o (IF castlingFlags.Q THEN <<"Q">> ELSE <<>>)
           \o (IF castlingFlags.k THEN <<"k">> ELSE <<>>)
           \o (IF castlingFlags.q THEN <<"q">> ELSE <<>>)
  IN IF s = <<>> THEN Dash ELSE s

\* the string with the fullmove number left out
FenText_NoFullmove(placement, turn, castle, ep) ==
  placement \o <<" ">> \o turn \o <<" ">> \o castle \o <<" ">> \o ep
    \o <<" ", "0">>

\* `${placement} ${turn} ${castle} ${ep} 0 1`
FenText(placement, turn, castle, ep) ==
  placement \o <<" ">> \o turn \o <<" ">> \o castle \o <<" ">> \o ep
    \o <<" ", "0", " ", "1">>

posObjToFen(obj, turn, castlingFlags) ==
  LET AfterScan(scan) ==
        IF Returned(scan) THEN scan
        ELSE IF KingCountBad(scan.wK, scan.bK)
          THEN [fen |-> Null, error |-> KingCountError(scan.wK, scan.bK)]
        ELSE [fen |-> FenText(scan.placement, turn, CastleField(castlingFlags),
                              autoDetectEnPassant(obj, turn))]
  IN AfterScan(ScanBoard(obj))

-----------------------------------------------------------------------------
(* fenToPosObj *)

\* text.split(sep) for a one-character separator: the pieces between
\* consecutive separators, empty pieces included
split(text, sep) ==
  LET at == SelectSeq([i \in 1..Len(text) |-> i], LAMBDA i : text[i] = sep)
      cut == <<0>> \o at \o <<Len(text) + 1>>
  IN [n \in 1..(Len(at) + 1) |-> SubSeq(text, cut[n] + 1, cut[n + 1] - 1)]

\* an element of a destructured array: the field, or undefined
Field(fields, i) == IF i <= Len(fields) THEN fields[i] ELSE Undefined

\* castle?.includes(ch) || false
CastleHas(castle, ch) ==
  IF castle = Undefined THEN FALSE
  ELSE \E i \in 1..Len(castle) : castle[i] = ch

\* the side defaulting to black
TurnOf_DefaultBlack(turn) == IF turn = <<"w">> THEN <<"w">> ELSE <<"b">>

\* turn === 'b' ? 'b' : 'w'
TurnOf(turn) == IF turn = <<"b">> THEN <<"b">> ELSE <<"w">>

\* The locals of the walk are [rank, file, pos]; a throw is Threw(msg).
\* The body of `for (const ch of placement)`
WalkChar(st, ch) ==
  IF ch = "/" THEN [st EXCEPT !.rank = @ - 1, !.file = 0]
  ELSE IF IsDigit(ch) THEN [st EXCEPT !.file = @ + parseInt(ch)]
  ELSE
    LET sq == SquareName(st.file, st.rank)
        piece == symbolToPiece(ch)
    IN IF piece = Thrown("bad symbol") THEN Threw("bad symbol")
       ELSE [st EXCEPT !.pos = Put(st.pos, sq, piece), !.file = @ + 1]

\* the loop over the characters lo..hi in order, left by a throw (the range
\* is halved so that a long string does not nest deeply)
RECURSIVE WalkRange(_, _, _, _)
WalkRange(placement, lo, hi, st) ==
  IF IsThrown(st) \/ lo > hi THEN st
  ELSE IF lo = hi THEN WalkChar(st, placement[lo])
  ELSE LET mid == (lo + hi) \div 2
           first == WalkRange(placement, lo, mid, st)
       IN WalkRange(placement, mid + 1, hi, first)

\* let rank = 8; let file = 0; and the loop
WalkPlacement(placement) ==
  WalkRange(placement, 1, Len(placement), [rank |-> 8, file |-> 0, pos |-> EmptyPos])

fenToPosObj(text) ==
  LET Read(placement, turn, castle) ==
        LET AfterWalk(walk) ==
              IF IsThrown(walk) THEN walk
              ELSE [pos |-> walk.pos,
                    turn |-> TurnOf(turn),
                    castle |-> [K |-> CastleHas(castle, "K"),
                                Q |-> CastleHas(castle, "Q"),
                                k |-> CastleHas(castle, "k"),
                                q |-> CastleHas(castle, "q")]]
        IN AfterWalk(WalkPlacement(placement))
      Fields(fields) == Read(Field(fields, 1), Field(fields, 2), Field(fields, 3))
  IN Fields(split(text, " "))

-----------------------------------------------------------------------------
(* Exchange strings the session can hold *)

\* new Chess().fen()
StartFen ==
    <<"r", "n", "b", "q", "k", "b", "n", "r", "/", "p", "p", "p", "p", "p",
      "p", "p", "p", "/", "8", "/", "8", "/", "8", "/", "8", "/", "P", "P",
      "P", "P", "P", "P", "P", "P", "/", "R", "N", "B", "Q", "K", "B", "N",
      "R", " ", "w", " ", "K", "Q", "k", "q", " ", "-", " ", "0", " ", "1">>

\* after 1. Nf3 Nf6
KnightsFen ==
    <<"r", "n", "b", "q", "k", "b", "1", "r", "/", "p", "p", "p", "p", "p",
      "p", "p", "p", "/", "5", "n", "2", "/", "8", "/", "8", "/", "5", "N",
      "2", "/", "P", "P", "P", "P", "P", "P", "P", "P", "/", "R", "N", "B",
      "Q", "K", "B", "1", "R", " ", "w", " ", "K", "Q", "k", "q", " ", "-",
      " ", "2", " ", "2">>

\* an imported end game, late in its game
EndgameFen ==
    <<"4", "k", "3", "/", "8", "/", "8", "/", "3", "p", "P", "3", "/", "8",
      "/", "8", "/", "8", "/", "4", "K", "2", "R", " ", "b", " ", "K", " ",
      "-", " ", "3", "7", " ", "6", "0">>

SourceFens == {StartFen, KnightsFen, EndgameFen}

-----------------------------------------------------------------------------
(* Bounded inputs of the codec *)

MaxExtra == 2      \* pieces placed besides the kings
MaxPawns == 4      \* pawns on the rank en passant looks at
MaxTextLen == 4    \* characters of a raw input string
MaxBotPieces == 2  \* pieces besides the kings in a position the bot is given
MaxMoves == 3      \* moves in the list the oracle answers with

Turns == {<<"w">>, <<"b">>}

\* the objects with at most n keys among `squares`, values among `pcs`
Placements(squares, pcs, n) ==
  UNION {[D -> pcs] : D \in {S \in SUBSET squares : Cardinality(S) <= n}}

\* king layouts: no king; one king a side (with a rook at home, and on open
\* board); a missing black king; two white kings; two black kings
KingLayouts ==
  { EmptyPos,
    Put(Put(Put(EmptyPos, Sq("e", 1), wK), Sq("h", 1), wR), Sq("e", 8), bK),
    Put(Put(EmptyPos, Sq("b", 4), bK), Sq("g", 5), wK),
    Put(EmptyPos, Sq("e", 1), wK),
    Put(Put(Put(EmptyPos, Sq("e", 1), wK), Sq("d", 1), wK), Sq("e", 8), bK),
    Put(Put(Put(EmptyPos, Sq("e", 1), wK), Sq("b", 4), bK), Sq("e", 8), bK) }

ExtraSquares == {Sq("a", 8), Sq("h", 8), Sq("a", 1), Sq("d", 5), Sq("e", 5)}
ExtraPieces == {wP, bP, bN}

\* a king layout and at most n more pieces
CodecPositions(n) ==
  {Merge(k, x) : k \in KingLayouts, x \in Placements(ExtraSquares, ExtraPieces, n)}

\* pawn structures for en passant: at most n pawns of either colour on rank r
\* (5 or 4), and at most one piece on the rank a capture would land on
EpPositions(r, n) ==
  {Merge(pawns, block) :
     pawns \in Placements({Sq(FILES[i], r) : i \in 1..8}, {wP, bP}, n),
     block \in Placements({Sq(FILES[i], IF r = 5 THEN 6 ELSE 3) : i \in 1..8},
                          {bN}, 1)}

TextChars == {"K", "n", "p", "b", "w", "/", "1", "8", " ", "x", "-"}

RECURSIVE TextsUpTo(_)
TextsUpTo(n) ==
  IF n = 0 THEN {<<>>}
  ELSE LET shorter == TextsUpTo(n - 1)
       IN shorter \cup {Append(t, c) : t \in shorter, c \in TextChars}

-----------------------------------------------------------------------------
(* The rule oracle (chess.js), as far as lib/bot and maybeBotMove use it.
   A position is [board, turn]; the board is a PosObj.  A move is
   [color, from, to, piece, captured, promotion, san], the fields of the
   oracle's verbose moves.  Castling rights, the en-passant square and the
   clocks of the oracle's strings are not tracked: they read "- - 0 1". *)

NullMove == [null |-> TRUE]

Other(color) == IF color = <<"w">> THEN <<"b">> ELSE <<"w">>

\* new Chess(text)
OracleLoad(text) ==
  LET Position(d) == [board |-> d.pos, turn |-> d.turn] IN Position(fenToPosObj(text))

\* useRef(new Chess())
StartChess == OracleLoad(StartFen)

\* chess.fen(): the oracle holds no pawn on rank 1 or 8, so the placement is
\* the one the scan of posObjToFen builds
OracleFen(c) == FenText(ScanBoard(c.board).placement, c.turn, Dash, Dash)

\* cell.type of a piece: its letter in lower case
CellType(piece) == LowerLetters[IndexOf(UpperLetters, piece[2], 1) + 1]

\* chess.move(m): the mover leaves m.from and stands, promoted if the move
\* says so, on m.to; the turn passes
OracleMove(c, m) ==
  LET placed == IF m.promotion = Undefined THEN At(c.board, m.from)
                ELSE <<m.color[1], toUpperCase(m.promotion[1])>>
  IN [board |-> Put(Delete(c.board, m.from), m.to, placed),
      turn |-> Other(c.turn)]

-----------------------------------------------------------------------------
(* The oracle's answer to new Chess(text): the checks of its validation that
   the strings of the model can fail.  It is outside the repository. *)

\* the squares a row of the placement covers
RECURSIVE RowWidth(_, _)
RowWidth(row, i) ==
  IF i > Len(row) THEN 0
  ELSE (IF IsDigit(row[i]) THEN parseInt(row[i]) ELSE 1) + RowWidth(row, i + 1)

RowOk(row) ==
  /\ \A i \in 1..Len(row) : IsDigit(row[i]) \/ IsPieceLetter(toUpperCase(row[i]))
  /\ RowWidth(row, 1) = 8

\* a right of the castling field has its king and rook at home
RightOk(pos, ch) ==
  CASE ch = "K" -> At(pos, Sq("e", 1)) = wK /\ At(pos, Sq("h", 1)) = wR
    [] ch = "Q" -> At(pos, Sq("e", 1)) = wK /\ At(pos, Sq("a", 1)) = wR
    [] ch = "k" -> At(pos, Sq("e", 8)) = bK /\ At(pos, Sq("h", 8)) = bR
    [] ch = "q" -> At(pos, Sq("e", 8)) = bK /\ At(pos, Sq("a", 8)) = bR
    [] OTHER -> FALSE

OracleAcceptsFields(fields, strict) ==
  LET RowsOk(rows) == Len(rows) = 8 /\ \A n \in 1..8 : RowOk(rows[n])
      PiecesOk(pos) ==
        /\ Cardinality({sq \in DOMAIN pos : pos[sq] = wK}) = 1
        /\ Cardinality({sq \in DOMAIN pos : pos[sq] = bK}) = 1
        /\ \A sq \in DOMAIN pos :
             pos[sq] \in {wP, bP} => sq[2] \notin {"1", "8"}
        /\ strict =>
             \A i \in 1..Len(fields[3]) :
               fields[3][i] = "-" \/ RightOk(pos, fields[3][i])
  IN /\ RowsOk(split(fields[1], "/"))
     /\ fields[2] \in {<<"w">>, <<"b">>}
     /\ fields[3] # <<>>
     /\ \A i \in 1..Len(fields[3]) : fields[3][i] \in {"K", "Q", "k", "q", "-"}
     /\ PiecesOk(WalkPlacement(fields[1]).pos)

\* new Chess(text) returns; otherwise it throws
OracleAccepts(text, strict) ==
  LET SixFields(fields) == Len(fields) = 6 /\ OracleAcceptsFields(fields, strict)
  IN text \notin {Undefined, Null} /\ SixFields(split(text, " "))

-----------------------------------------------------------------------------
(* lib/bot *)

VAL == [p |-> 100, n |-> 320, b |-> 330, r |-> 500, q |-> 900, k |-> 0]

\* score += cell.color === 'w' ? s : -s, over the cells in `cells`
RECURSIVE SumCells(_, _)
SumCells(board, cells) ==
  IF cells = {} THEN 0
  ELSE LET sq == CHOOSE x \in cells : TRUE
           s == VAL[CellType(board[sq])]
       IN (IF board[sq][1] = "w" THEN s ELSE -s) + SumCells(board, cells \ {sq})

materialScore(c) == SumCells(c.board, DOMAIN c.board)

\* [moves[i], moves[j]] = [moves[j], moves[i]], i and j counted from 0
Swap(ms, i, j) ==
  [k \in 1..Len(ms) |->
     IF k = i + 1 THEN ms[j + 1] ELSE IF k = j + 1 THEN ms[i + 1] ELSE ms[k]]

\* the arrays the loop `for (let i = ...; i > 0; i--)` can leave, from index i
\* on: Math.floor(Math.random() * (i + 1)) is any j in 0..i
RECURSIVE ShuffleOutcomes(_, _)
ShuffleOutcomes(ms, i) ==
  IF i <= 0 THEN {ms}
  ELSE UNION {ShuffleOutcomes(Swap(ms, i, j), i - 1) : j \in 0..i}

InitialBestScore == -1000000000

\* the sign always that of white
Orient_White(color) == 1

\* color === 'w' ? 1 : -1
Orient(color) == IF color = <<"w">> THEN 1 ELSE -1

\* delta > bestScore
Better(delta, bestScore) == delta > bestScore

\* A Chess object that has moved: its position and the positions it can
\* go back to
NewHandle(c) == [pos |-> c, history |-> <<>>]

\* chess.move(m) on the handle
HandleMove(h, m) ==
  [pos |-> OracleMove(h.pos, m), history |-> Append(h.history, h.pos)]

\* undo that leaves the move in place
HandleUndo_Keep(h) == h

\* chess.undo(): back to the position before the last move, if any
HandleUndo(h) ==
  IF Len(h.history) = 0 THEN h
  ELSE [pos |-> h.history[Len(h.history)],
        history |-> SubSeq(h.history, 1, Len(h.history) - 1)]

\* `for (const m of moves)` from the k-th move on; st is [best, bestScore,
\* chess], chess being the handle the loop moves and undoes on
RECURSIVE ScanMoves(_, _, _, _, _)
ScanMoves(ms, color, base, k, st) ==
  IF k > Len(ms) THEN st
  ELSE LET m == ms[k]
           moved == HandleMove(st.chess, m)
           score == materialScore(moved.pos) * Orient(color)
           undone == HandleUndo(moved)
           delta == score - base * Orient(color)
       IN ScanMoves(ms, color, base, k + 1,
                    IF Better(delta, st.bestScore)
                      THEN [best |-> m, bestScore |-> delta, chess |-> undone]
                      ELSE [st EXCEPT !.chess = undone])

\* a run of pickBotMove(text, color), the oracle answering chess.moves()
\* with `list`: [best, chess] for each outcome of the shuffle, best being the
\* value returned and chess the position its handle is left in
pickBotMoveRuns(text, list, color) ==
  LET Left(st) == [best |-> st.best, chess |-> st.chess.pos]
      Runs(c) ==
        IF Len(list) = 0 THEN {[best |-> NullMove, chess |-> c]}
        ELSE {Left(ScanMoves(sh, color, materialScore(c), 1,
                             [best |-> NullMove,
                              bestScore |-> InitialBestScore,
                              chess |-> NewHandle(c)])) :
                sh \in ShuffleOutcomes(list, Len(list) - 1)}
  IN Runs(OracleLoad(text))

\* the values pickBotMove(text, color) can return
pickBotMove(text, list, color) ==
  {run.best : run \in pickBotMoveRuns(text, list, color)}

\* the always-true guard
BotToMove_Always(c, botColor) == TRUE

\* c.turn() === botColor, without which maybeBotMove returns
BotToMove(c, botColor) == c.turn = botColor

\* myColor === 'w' ? 'b' : 'w'
BotColor == IF myColor = <<"w">> THEN <<"b">> ELSE <<"w">>

-----------------------------------------------------------------------------
(* The codec applied to bounded inputs *)

\* the remaining hooks as useState leaves them
SessionIdle ==
  /\ mode = "strict"
  /\ status = ""
  /\ shownTurn = <<"w">>
  /\ selectedPalette = Null
  /\ page = "index"
  /\ sandboxPos = EmptyPos
  /\ oracleStrict = FALSE
  /\ returned = None
  /\ event = None
  /\ steps = 0
  /\ peer = None

\* no game against the bot and no room: the hooks as useState leaves them
BotIdle ==
  /\ playMode = "none"
  /\ myColor = <<"w">>
  /\ moves = <<>>
  /\ best = None
  /\ channelRef = FALSE
  /\ joined = FALSE
  /\ room = "none"
  /\ opened = {}
  /\ sent = <<>>
  /\ handle = None
  /\ SessionIdle

Flags == [K |-> castleWK, Q |-> castleWQ, k |-> castleBK, q |-> castleBQ]

\* the editor as toggleEdit pre-fills it from the string `text`
PrefilledFrom(text) ==
  LET d == fenToPosObj(text)
  IN /\ editPos = d.pos
     /\ editTurn = d.turn
     /\ castleWK = d.castle.K /\ castleWQ = d.castle.Q
     /\ castleBK = d.castle.k /\ castleBQ = d.castle.q

InitCodec ==
  /\ pc = "input"
  /\ edit = TRUE
  /\ previewEP = None
  /\ encoded = None
  /\ decoded = None
  /\ BotIdle
  /\ fen \in SourceFens
  /\ chess = OracleLoad(fen)
  /\ \/ /\ fen = StartFen
        /\ editPos \in CodecPositions(MaxExtra)
        /\ editTurn \in Turns
        /\ castleWK \in BOOLEAN /\ castleWQ \in BOOLEAN
        /\ castleBK \in BOOLEAN /\ castleBQ \in BOOLEAN
     \/ PrefilledFrom(fen)

\* posObjToFen(editPos, editTurn, {K, Q, k, q}), as commitEdit calls it
CallPosObjToFen ==
  /\ pc = "input"
  /\ encoded' = posObjToFen(editPos, editTurn, Flags)
  /\ pc' = "encoded"
  /\ UNCHANGED <<fen, editorVars, previewEP, decoded, botVars, sessionVars>>

\* fenToPosObj of the string posObjToFen emitted
CallFenToPosObj ==
  /\ pc = "encoded"
  /\ encoded.fen # Null
  /\ decoded' = fenToPosObj(encoded.fen)
  /\ pc' = "decoded"
  /\ UNCHANGED <<fen, editorVars, previewEP, encoded, botVars, sessionVars>>

NextCodec == CallPosObjToFen \/ CallFenToPosObj

SpecCodec == InitCodec /\ [][NextCodec]_vars

-----------------------------------------------------------------------------
(* En-passant inference applied to bounded pawn structures *)

InitEP ==
  /\ pc = "input"
  /\ edit = TRUE
  /\ fen = StartFen
  /\ chess = StartChess
  /\ \E r \in {4, 5} : editPos \in EpPositions(r, MaxPawns)
  /\ editTurn \in Turns
  /\ castleWK = FALSE /\ castleWQ = FALSE /\ castleBK = FALSE /\ castleBQ = FALSE
  /\ previewEP = None
  /\ encoded = None
  /\ decoded = None
  /\ BotIdle

\* const previewEP = autoDetectEnPassant(editPos, editTurn), on a render
RenderPreviewEP ==
  /\ pc = "input"
  /\ previewEP' = autoDetectEnPassant(editPos, editTurn)
  /\ pc' = "rendered"
  /\ UNCHANGED <<fen, editorVars, encoded, decoded, botVars, sessionVars>>

NextEP == RenderPreviewEP

SpecEP == InitEP /\ [][NextEP]_vars

-----------------------------------------------------------------------------
(* fenToPosObj applied to bounded strings *)

InitDecode ==
  /\ pc = "text"
  /\ chess = StartChess
  /\ fen \in TextsUpTo(MaxTextLen) \cup SourceFens
  /\ edit = FALSE
  /\ editPos = EmptyPos
  /\ editTurn = <<"w">>
  /\ castleWK = FALSE /\ castleWQ = FALSE /\ castleBK = FALSE /\ castleBQ = FALSE
  /\ previewEP = None
  /\ encoded = None
  /\ decoded = None
  /\ BotIdle

\* fenToPosObj(fen)
CallFenToPosObjOnText ==
  /\ pc = "text"
  /\ decoded' = fenToPosObj(fen)
  /\ pc' = "parsed"
  /\ UNCHANGED <<fen, editorVars, previewEP, encoded, botVars, sessionVars>>

NextDecode == CallFenToPosObjOnText

SpecDecode == InitDecode /\ [][NextDecode]_vars

-----------------------------------------------------------------------------
(* The bot: choosing "bot" or "online" in the play-mode select, and the
   effect that runs maybeBotMove when playMode has changed.  The oracle is
   outside the repository: chess.moves() may answer with any list of at most
   MaxMoves distinct moves of the side to move. *)

BotKings == Put(Put(EmptyPos, Sq("e", 1), wK), Sq("e", 8), bK)

\* pieces a position may hold besides the kings, each on its square
BotExtras ==
  { <<Sq("d", 4), wN>>, <<Sq("e", 5), bP>>, <<Sq("c", 6), bR>>,
    <<Sq("a", 7), wP>>, <<Sq("f", 3), bQ>> }

\* the squares moves may go to
BotTargets == {Sq("d", 4), Sq("e", 5), Sq("c", 6), Sq("a", 8)}

\* the subsets of S with at most n elements
RECURSIVE SubsetsUpTo(_, _)
SubsetsUpTo(S, n) ==
  IF n = 0 THEN {{}}
  ELSE LET prev == SubsetsUpTo(S, n - 1)
       IN prev \cup {T \cup {x} : T \in prev, x \in S}

RECURSIVE BoardOf(_)
BoardOf(extras) ==
  IF extras = {} THEN BotKings
  ELSE LET x == CHOOSE x \in extras : TRUE
       IN Put(BoardOf(extras \ {x}), x[1], x[2])

BotPositions(n) ==
  {[board |-> BoardOf(E), turn |-> t] : E \in SubsetsUpTo(BotExtras, n), t \in Turns}

\* a pawn reaching the last rank promotes, here always to a queen
PromotionOf(piece, to) ==
  IF (piece = wP /\ to[2] = "8") \/ (piece = bP /\ to[2] = "1")
    THEN <<"q">> ELSE Undefined

\* the move of the piece on `from` to `to` as the oracle reports it
MoveOf(c, from, to) ==
  LET piece == c.board[from]
      promotion == PromotionOf(piece, to)
  IN [color |-> c.turn, from |-> from, to |-> to,
      piece |-> <<CellType(piece)>>,
      captured |-> IF to \in DOMAIN c.board
                     THEN <<CellType(c.board[to])>> ELSE Undefined,
      promotion |-> promotion,
      san |-> <<piece[2]>> \o from \o to]

\* a pawn never moves back to its own side's first rank
PawnRetreat(piece, to) ==
  (piece = wP /\ to[2] = "1") \/ (piece = bP /\ to[2] = "8")

\* moves of the side to move: onto an empty square or a piece of the other
\* side that is not its king
CandidateMoves(c) ==
  {m \in {MoveOf(c, from, to) :
            from \in {sq \in DOMAIN c.board : c.board[sq][1] = c.turn[1]},
            to \in {sq \in BotTargets :
                      \/ sq \notin DOMAIN c.board
                      \/ (c.board[sq][1] # c.turn[1] /\ c.board[sq][2] # "K")}} :
     ~PawnRetreat(c.board[m.from], m.to)}

RECURSIVE SeqOf(_)
SeqOf(S) ==
  IF S = {} THEN <<>>
  ELSE LET x == CHOOSE x \in S : TRUE IN <<x>> \o SeqOf(S \ {x})

Reverse(list) == [k \in 1..Len(list) |-> list[Len(list) + 1 - k]]

\* the lists chess.moves() may answer with: at most n candidate moves, in
\* one order or the opposite one
MoveLists(c, n) ==
  UNION {{SeqOf(S), Reverse(SeqOf(S))} : S \in SubsetsUpTo(CandidateMoves(c), n)}

PlayModes == {"none", "bot", "online"}

InitBot ==
  /\ pc = "idle"
  /\ edit = FALSE
  /\ editPos = EmptyPos
  /\ editTurn = <<"w">>
  /\ castleWK = FALSE /\ castleWQ = FALSE /\ castleBK = FALSE /\ castleBQ = FALSE
  /\ previewEP = None
  /\ encoded = None
  /\ decoded = None
  /\ playMode = "none"
  /\ channelRef \in BOOLEAN
  /\ myColor \in (IF channelRef THEN Turns ELSE {<<"w">>})
  /\ joined = channelRef
  /\ room = (IF ~channelRef THEN "none"
             ELSE IF myColor = <<"w">> THEN "created" ELSE "joined")
  /\ opened = (IF channelRef THEN {room} ELSE {})
  /\ chess \in BotPositions(MaxBotPieces)
  /\ fen = OracleFen(chess)
  /\ moves \in MoveLists(chess, MaxMoves)
  /\ best = None
  /\ sent = <<>>
  /\ handle = None
  /\ SessionIdle

\* The hooks and refs of a session that its handlers and effects read and
\* set, as one record: the values now
Now ==
  [fen |-> fen, chess |-> chess, mode |-> mode, playMode |-> playMode,
   myColor |-> myColor, status |-> status, turn |-> shownTurn, sent |-> sent,
   best |-> best, handle |-> handle, moves |-> moves, edit |-> edit,
   channelRef |-> channelRef, returned |-> returned,
   sandboxPos |-> sandboxPos]

\* the render that follows: the hooks and refs take the values of h
Commit(h) ==
  /\ fen' = h.fen
  /\ chess' = h.chess
  /\ mode' = h.mode
  /\ playMode' = h.playMode
  /\ myColor' = h.myColor
  /\ status' = h.status
  /\ shownTurn' = h.turn
  /\ sent' = h.sent
  /\ best' = h.best
  /\ handle' = h.handle
  /\ moves' = h.moves
  /\ edit' = h.edit
  /\ channelRef' = h.channelRef
  /\ returned' = h.returned
  /\ sandboxPos' = h.sandboxPos

\* c.isGameOver() and the message for it.  Of the oracle's reasons only
\* insufficient material is modelled: bare kings, or one knight or bishop
GameOverStatus(c) ==
  LET others == {sq \in DOMAIN c.board : c.board[sq][2] # "K"}
  IN IF others = {} \/ (\E sq \in others :
                          others = {sq} /\ c.board[sq][2] \in {"N", "B"})
       THEN "Game over." ELSE ""

\* the effect on [fen]: chessRef.current = new Chess(fen), setTurn, setStatus
SyncEffect(h) ==
  IF OracleAccepts(h.fen, oracleStrict)
    THEN LET Loaded(c) ==
               [h EXCEPT !.chess = c, !.turn = c.turn, !.status = GameOverStatus(c)]
         IN Loaded(OracleLoad(h.fen))
  ELSE [h EXCEPT !.status = "Invalid FEN."]

\* a broadcast that carries the start position whatever the move led to
broadcastMove_StartPosition(h, move) ==
  IF ~h.channelRef THEN h
  ELSE [h EXCEPT !.sent = Append(@, [move EXCEPT !.fen = StartFen])]

\* broadcastMove(move) in the session h
broadcastMove(h, move) ==
  IF ~h.channelRef THEN h ELSE [h EXCEPT !.sent = Append(@, move)]

\* maybeBotMove() in the session h, the oracle answering chess.moves() with
\* `list`: the sessions it can leave
maybeBotMove(h, list) ==
  IF h.playMode # "bot" \/ ~BotToMove(h.chess, Other(h.myColor)) THEN {h}
  ELSE {IF run.best = NullMove
          THEN [h EXCEPT !.moves = list, !.best = run.best, !.handle = run.chess]
        ELSE LET Moved(c, f) ==
                   broadcastMove([h EXCEPT !.moves = list, !.best = run.best,
                                           !.handle = run.chess, !.chess = c,
                                           !.fen = f],
                                 [from |-> run.best.from, to |-> run.best.to,
                                  san |-> run.best.san, fen |-> f])
                 After(c) == Moved(c, OracleFen(c))
             IN After(OracleMove(h.chess, run.best)) :
          run \in pickBotMoveRuns(OracleFen(h.chess), list, Other(h.myColor))}

\* squares the pieces stand on that the oracle lists moves for
ReplySources == {Sq("e", 7), Sq("d", 5), Sq("e", 2)}

\* the longest list the oracle answers chess.moves() with in a session
MaxReplies == 1

\* the lists chess.moves() may answer with in a session
ReplyLists(c) ==
  UNION {{SeqOf(S), Reverse(SeqOf(S))} :
           S \in SubsetsUpTo({m \in CandidateMoves(c) : m.from \in ReplySources},
                             MaxReplies)}

\* the lists chess.moves() may answer with: the one drawn at construction
\* where the bot is studied alone, any of ReplyLists in a session of the page
MovesAnswers(c) == IF pc = "idle" THEN {moves} ELSE ReplyLists(c)

\* maybeBotMove() in the session h for each list the oracle may answer with;
\* the oracle is asked only where pickBotMove is called
AskBot(h) ==
  IF h.playMode # "bot" \/ ~BotToMove(h.chess, Other(h.myColor)) THEN {h}
  ELSE UNION {maybeBotMove(h, list) : list \in MovesAnswers(h.chess)}

\* the effects that run after a handler took the session from h0 to h:
\* the effect on [fen], the effect on [playMode, mode, myColor]
\* that calls maybeBotMove, and the effect on [fen] again if the bot moved
Effects(h0, h) ==
  LET botDue == h.playMode # h0.playMode \/ h.mode # h0.mode
                  \/ h.myColor # h0.myColor
  IN UNION {{IF h2.fen # synced.fen THEN SyncEffect(h2) ELSE h2 :
               h2 \in IF botDue THEN AskBot(synced) ELSE {synced}} :
            synced \in {IF h.fen # h0.fen THEN SyncEffect(h) ELSE h}}

\* the variables Commit leaves alone and no handler of the play controls sets
frameVars == <<editPos, editTurn, castleWK, castleWQ, castleBK, castleBQ,
               codecVars, selectedPalette, joined, page, room, opened,
               oracleStrict, event, peer>>

\* onChange of the play-mode select: setPlayMode(pm)
setPlayMode(pm) ==
  /\ pm # playMode
  /\ \E h0 \in {Now} :
       \E h \in {[h0 EXCEPT !.playMode = pm]} :
         \E r \in Effects(h0, h) : Commit(r)
  /\ UNCHANGED frameVars

ChoosePlayMode(pm) ==
  /\ pc = "idle"
  /\ setPlayMode(pm)
  /\ pc' = "ran"
  /\ UNCHANGED steps

NextBot == \E pm \in PlayModes : ChoosePlayMode(pm)

SpecBot == InitBot /\ [][NextBot]_vars

-----------------------------------------------------------------------------
(* The page of src/pages/index.tsx: one session, its user and its channel.
   The user and the channel are the environment: they choose the handler that
   runs next and its arguments. *)

MaxSteps == 3      \* handlers a session runs

\* strings a user pastes and a channel delivers that are no position
Garbage == <<"x">>
\* a freeform string: the sentinel, the side to move, the pieces
SandboxText ==
  <<"S", "A", "N", "D", "B", "O", "X", ":", "b", ":", "w", "K", ":", "e", "1",
    ",", "b", "P", ":", "e", "7", ",", "w", "P", ":", "d", "5">>

ImportTexts == {EndgameFen, Garbage, SandboxText}

\* (payload as any).payload: absent, without a fen, or with one
Payloads ==
  {None} \cup {[fen |-> t] : t \in ImportTexts \cup {Undefined}}

\* const { fen: rf } = payload.payload || {}
PayloadFen(payload) == IF payload = None THEN Undefined ELSE payload.fen

\* squares the user drags from and to, and clicks in the editor
Drops == {<<Sq("e", 2), Sq("e", 4)>>, <<Sq("d", 5), Sq("d", 4)>>}
ClickSquares == {Sq("e", 1), Sq("h", 1)}
PaletteChoices == {Null, bP}

\* the locals of the handlers that ran before are gone
Fresh(h) ==
  [h EXCEPT !.best = None, !.handle = None, !.moves = <<>>, !.returned = None]

\* chess.move({from, to, promotion: 'q'}) can return a move: a piece of the
\* side to move goes to a square it may stand on.  Whether it does is the
\* oracle's decision
DropCandidate(c, source, target) ==
  /\ source \in DOMAIN c.board
  /\ c.board[source][1] = c.turn[1]
  /\ source # target
  /\ target \in DOMAIN c.board =>
       (c.board[target][1] # c.turn[1] /\ c.board[target][2] # "K")
  /\ ~PawnRetreat(c.board[source], target)

\* a drop that asks the bot although the oracle refused the move
onPieceDrop_AskAnyway(h, source, target, accepts) ==
  IF h.edit THEN {[h EXCEPT !.returned = Return(FALSE)]}
  ELSE IF ~(accepts /\ DropCandidate(h.chess, source, target))
    THEN {[r EXCEPT !.returned = Return(FALSE)] : r \in AskBot(h)}
  ELSE {[r EXCEPT !.returned = Return(TRUE)] :
          r \in AskBot(broadcastMove(
                  [h EXCEPT !.chess = OracleMove(h.chess, MoveOf(h.chess, source, target)),
                            !.fen = OracleFen(OracleMove(h.chess, MoveOf(h.chess, source, target)))],
                  [from |-> source, to |-> target,
                   san |-> MoveOf(h.chess, source, target).san,
                   fen |-> OracleFen(OracleMove(h.chess, MoveOf(h.chess, source, target)))]))}

\* a drop that moves the piece in edit mode too
onPieceDrop_WhileEditing(h, source, target, accepts) ==
  IF ~(accepts /\ DropCandidate(h.chess, source, target))
    THEN {[h EXCEPT !.returned = Return(FALSE)]}
  ELSE LET Moved(move, c, f) ==
             {[r EXCEPT !.returned = Return(TRUE)] :
                r \in AskBot(broadcastMove([h EXCEPT !.chess = c, !.fen = f],
                                           [from |-> source, to |-> target,
                                            san |-> move.san, fen |-> f]))}
           After(move, c) == Moved(move, c, OracleFen(c))
           Accepted(move) == After(move, OracleMove(h.chess, move))
       IN Accepted(MoveOf(h.chess, source, target))

\* onPieceDrop(source, target), the oracle accepting the move or not
onPieceDrop(h, source, target, accepts) ==
  IF h.edit THEN {[h EXCEPT !.returned = Return(FALSE)]}
  ELSE IF ~(accepts /\ DropCandidate(h.chess, source, target))
    THEN {[h EXCEPT !.returned = Return(FALSE)]}
  ELSE LET Moved(move, c, f) ==
             {[r EXCEPT !.returned = Return(TRUE)] :
                r \in AskBot(broadcastMove([h EXCEPT !.chess = c, !.fen = f],
                                           [from |-> source, to |-> target,
                                            san |-> move.san, fen |-> f]))}
           After(move, c) == Moved(move, c, OracleFen(c))
           Accepted(move) == After(move, OracleMove(h.chess, move))
       IN Accepted(MoveOf(h.chess, source, target))

\* importFENText(text)
importFENText(h, text) ==
  IF OracleAccepts(text, oracleStrict)
    THEN [h EXCEPT !.chess = OracleLoad(text), !.fen = text, !.mode = "strict"]
  ELSE [h EXCEPT !.status = "Invalid FEN string."]

\* a handler that takes any string without asking the oracle
onMove_Unchecked(h, payload) ==
  LET rf == PayloadFen(payload)
  IN IF rf = Undefined THEN h ELSE [h EXCEPT !.fen = rf]

\* a handler that takes a position only while the session is in the start
\* position
onMove_FirstWins(h, payload) ==
  LET rf == PayloadFen(payload)
  IN IF rf = Undefined \/ h.fen # StartFen THEN h
     ELSE IF OracleAccepts(rf, oracleStrict)
       THEN [h EXCEPT !.chess = OracleLoad(rf), !.fen = rf]
     ELSE h

\* a handler of "move" broadcasts that also closes the editor when it takes
\* a position
onMove_LeaveEdit(h, payload) ==
  LET rf == PayloadFen(payload)
  IN IF rf = Undefined THEN h
     ELSE IF OracleAccepts(rf, oracleStrict)
       THEN [h EXCEPT !.chess = OracleLoad(rf), !.fen = rf, !.edit = FALSE]
     ELSE h

\* the handler of "move" broadcasts that createRoom and joinRoom register
onMove(h, payload) ==
  LET rf == PayloadFen(payload)
  IN IF rf = Undefined THEN h
     ELSE IF OracleAccepts(rf, oracleStrict)
       THEN [h EXCEPT !.chess = OracleLoad(rf), !.fen = rf]
     ELSE h

MaxEditSteps == 4  \* handlers a session runs where its editor is studied
MaxPlaySteps == 4  \* handlers a session runs in play against the bot

\* src/pages/index.tsx holds Home() twice: lines 133-426, and an earlier
\* version of it at lines 541-823
HomeCopies == {"index", "index_541"}

\* a handler of the page runs, and the effects after it
Handler(name, args) ==
  /\ pc \in {"page", "edit", "play"}
  /\ steps < (IF pc = "page" THEN MaxSteps
              ELSE IF pc = "edit" THEN MaxEditSteps ELSE MaxPlaySteps)
  /\ steps' = steps + 1
  /\ event' = [name |-> name, args |-> args]
  /\ UNCHANGED <<pc, codecVars, page, oracleStrict, peer>>

editFields == <<editPos, editTurn, castleWK, castleWQ, castleBK, castleBQ,
                selectedPalette>>
roomFields == <<joined, room, opened>>

\* the user drops a piece
DropPiece(source, target) ==
  /\ page = "index"
  /\ Handler("onPieceDrop", <<source, target>>)
  /\ \E accepts \in {a \in BOOLEAN : a => DropCandidate(chess, source, target)} :
       \E h0 \in {Now} :
         \E h \in onPieceDrop(Fresh(h0), source, target, accepts) :
           \E r \in Effects(h0, h) : Commit(r)
  /\ UNCHANGED <<editFields, roomFields>>

\* the user pastes a string and leaves the text area
ImportText(text) ==
  /\ page = "index"
  /\ Handler("importFENText", <<text>>)
  /\ \E h0 \in {Now} :
       \E h \in {importFENText(Fresh(h0), text)} :
         \E r \in Effects(h0, h) : Commit(r)
  /\ UNCHANGED <<editFields, roomFields>>

\* the channel delivers a "move" broadcast
ReceiveMove(payload) ==
  /\ page \in HomeCopies
  /\ joined
  /\ Handler("onMove", <<payload>>)
  /\ \E h0 \in {Now} :
       \E h \in {onMove(Fresh(h0), payload)} :
         \E r \in Effects(h0, h) : Commit(r)
  /\ UNCHANGED <<editFields, roomFields>>

\* resetToStart()
resetToStart ==
  /\ page = "index"
  /\ Handler("resetToStart", <<>>)
  /\ \E h0 \in {Now} :
       \E h \in {[Fresh(h0) EXCEPT !.chess = StartChess, !.fen = StartFen,
                                   !.turn = <<"w">>, !.status = "",
                                   !.edit = FALSE]} :
         \E r \in Effects(h0, h) : Commit(r)
  /\ editPos' = EmptyPos
  /\ selectedPalette' = Null
  /\ castleWK' = FALSE /\ castleWQ' = FALSE /\ castleBK' = FALSE /\ castleBQ' = FALSE
  /\ UNCHANGED <<editTurn, roomFields>>

\* toggleEdit()
toggleEdit ==
  /\ page = "index"
  /\ Handler("toggleEdit", <<>>)
  /\ IF ~edit
       THEN LET Prefill(d) ==
                  /\ editPos' = d.pos
                  /\ editTurn' = d.turn
                  /\ castleWK' = d.castle.K /\ castleWQ' = d.castle.Q
                  /\ castleBK' = d.castle.k /\ castleBQ' = d.castle.q
            IN Prefill(fenToPosObj(fen))
     ELSE UNCHANGED <<editPos, editTurn, castleWK, castleWQ, castleBK, castleBQ>>
  /\ Commit([Fresh(Now) EXCEPT !.edit = ~edit])
  /\ UNCHANGED <<selectedPalette, roomFields>>

\* onClick of the Edit Board button in the earlier version of Home():
\* setEdit(v => !v)
EditBoardButton ==
  /\ page = "index_541"
  /\ Handler("setEdit", <<>>)
  /\ Commit([Fresh(Now) EXCEPT !.edit = ~edit])
  /\ UNCHANGED <<editFields, roomFields>>

\* onSquareClick(square)
onSquareClick(square) ==
  /\ page \in HomeCopies
  /\ Handler("onSquareClick", <<square>>)
  /\ editPos' = IF ~edit THEN editPos
                ELSE IF selectedPalette # Null THEN Put(editPos, square, selectedPalette)
                ELSE Delete(editPos, square)
  /\ Commit(Fresh(Now))
  /\ UNCHANGED <<editTurn, castleWK, castleWQ, castleBK, castleBQ, selectedPalette,
                 roomFields>>

\* a commit that leaves the mode as it was
commitEdit_KeepMode(h) ==
  LET Built(built) ==
        IF built.fen = Null THEN [h EXCEPT !.status = built.error]
        ELSE IF OracleAccepts(built.fen, oracleStrict)
          THEN [h EXCEPT !.chess = OracleLoad(built.fen), !.fen = built.fen,
                         !.edit = FALSE, !.status = ""]
        ELSE [h EXCEPT !.status = "Position rejected by engine."]
  IN Built(posObjToFen(editPos, editTurn, Flags))

\* a commit that leaves edit mode whether it succeeds or not
commitEdit_LeaveEdit(h) ==
  LET Built(built) ==
        IF built.fen = Null THEN [h EXCEPT !.status = built.error, !.edit = FALSE]
        ELSE IF OracleAccepts(built.fen, oracleStrict)
          THEN [h EXCEPT !.chess = OracleLoad(built.fen), !.fen = built.fen,
                         !.mode = "sandbox", !.edit = FALSE, !.status = ""]
        ELSE [h EXCEPT !.status = "Position rejected by engine.", !.edit = FALSE]
  IN Built(posObjToFen(editPos, editTurn, Flags))

\* commitEdit() in the session h
commitEdit(h) ==
  LET Built(built) ==
        IF built.fen = Null THEN [h EXCEPT !.status = built.error]
        ELSE IF OracleAccepts(built.fen, oracleStrict)
          THEN [h EXCEPT !.chess = OracleLoad(built.fen), !.fen = built.fen,
                         !.mode = "sandbox", !.edit = FALSE, !.status = ""]
        ELSE [h EXCEPT !.status = "Position rejected by engine."]
  IN Built(posObjToFen(editPos, editTurn, Flags))

\* the user presses Apply Edit
ApplyEdit ==
  /\ page \in HomeCopies
  /\ edit
  /\ Handler("commitEdit", <<>>)
  /\ \E h0 \in {Now} :
       \E h \in {commitEdit(Fresh(h0))} :
         \E r \in Effects(h0, h) : Commit(r)
  /\ UNCHANGED <<editFields, roomFields>>

-----------------------------------------------------------------------------
(* The page of src/unnamed/part_001: positions outside the rules are kept as
   a square-to-piece mapping and exchanged as freeform strings *)

\* the sentinel of a freeform string
Sentinel == <<"S", "A", "N", "D", "B", "O", "X", ":">>

\* text.startsWith(prefix)
startsWith(text, prefix) ==
  Len(text) >= Len(prefix) /\ SubSeq(text, 1, Len(prefix)) = prefix

\* parts.join(sep)
RECURSIVE join(_, _)
join(parts, sep) ==
  IF Len(parts) = 0 THEN <<>>
  ELSE IF Len(parts) = 1 THEN parts[1]
  ELSE parts[1] \o <<sep>> \o join(Tail(parts), sep)

\* text.trim() is not empty
HasText(text) == \E i \in 1..Len(text) : text[i] # " "

\* `SANDBOX:${turn}:${pieces}` with Object.entries(sandboxPos) listing the
\* squares in the order sqs
SandboxString(h, sqs) ==
  LET entries == [i \in 1..Len(sqs) |-> h.sandboxPos[sqs[i]] \o <<":">> \o sqs[i]]
  IN Sentinel \o h.turn \o <<":">> \o join(entries, ",")

\* exportFEN() in the session h.  Object.entries lists the squares in the
\* order they were set; the model lists them in one fixed order
exportFEN(h) ==
  IF h.mode = "strict" THEN h.fen
  ELSE SandboxString(h, SeqOf(DOMAIN h.sandboxPos))

\* the loop of importFENText over the chunks: obj[sq] = piece
RECURSIVE ReadChunks(_, _, _)
ReadChunks(chunks, i, obj) ==
  IF i > Len(chunks) THEN obj
  ELSE LET pair == split(chunks[i], ":")
           piece == Field(pair, 1)
           sq == Field(pair, 2)
           next == IF piece \notin {Undefined, <<>>} /\ sq \notin {Undefined, <<>>}
                     THEN Put(obj, sq, piece) ELSE obj
       IN ReadChunks(chunks, i + 1, next)

\* a reading of a freeform string that stops after the first chunk
ReadSandbox_FirstChunk(text) ==
  LET parts == split(text, ":")
      rest == join(SubSeq(parts, 3, Len(parts)), ":")
  IN [turn |-> IF Field(parts, 2) = <<"b">> THEN <<"b">> ELSE <<"w">>,
      pos |-> IF HasText(rest)
                THEN ReadChunks(SubSeq(split(rest, ","), 1, 1), 1, EmptyPos)
              ELSE EmptyPos]

\* the position and the side to move importFENText reads in a freeform string
ReadSandbox(text) ==
  LET parts == split(text, ":")
      rest == join(SubSeq(parts, 3, Len(parts)), ":")
  IN [turn |-> IF Field(parts, 2) = <<"b">> THEN <<"b">> ELSE <<"w">>,
      pos |-> IF HasText(rest) THEN ReadChunks(split(rest, ","), 1, EmptyPos)
              ELSE EmptyPos]

\* an import that passes the turn on instead of reading it
importFENText_part001_PassTurn(h, text) ==
  IF startsWith(text, Sentinel)
    THEN [h EXCEPT !.mode = "sandbox", !.sandboxPos = ReadSandbox(text).pos,
                   !.turn = Other(h.turn)]
  ELSE [h EXCEPT !.mode = "strict", !.fen = text]

\* importFENText(text) of part_001
importFENText_part001(h, text) ==
  IF startsWith(text, Sentinel)
    THEN LET Read(d) ==
               [h EXCEPT !.mode = "sandbox", !.sandboxPos = d.pos, !.turn = d.turn]
         IN Read(ReadSandbox(text))
  ELSE [h EXCEPT !.mode = "strict", !.fen = text]

\* the handler of "move" broadcasts of part_001
onMove_part001(h, payload) ==
  LET rf == PayloadFen(payload)
  IN IF rf = Undefined THEN h
     ELSE IF startsWith(rf, Sentinel) THEN importFENText_part001(h, rf)
     ELSE IF OracleAccepts(rf, oracleStrict)
       THEN LET Loaded(c) == [h EXCEPT !.chess = c, !.fen = rf, !.turn = c.turn]
            IN Loaded(OracleLoad(rf))
     ELSE h

\* the effect on [fen, mode] of part_001
SyncEffect_part001(h) ==
  IF h.mode # "strict" THEN h
  ELSE IF OracleAccepts(h.fen, oracleStrict)
    THEN LET Loaded(c) ==
               [h EXCEPT !.chess = c, !.turn = c.turn, !.status = GameOverStatus(c)]
         IN Loaded(OracleLoad(h.fen))
  ELSE [h EXCEPT !.status = "Invalid FEN for strict mode."]

\* maybeBotMove() of part_001
maybeBotMove_part001(h, list) ==
  IF h.mode # "strict" \/ h.playMode # "bot"
       \/ ~BotToMove(h.chess, Other(h.myColor)) THEN {h}
  ELSE {IF run.best = NullMove
          THEN [h EXCEPT !.moves = list, !.best = run.best, !.handle = run.chess]
        ELSE LET Moved(c, f) ==
                   broadcastMove([h EXCEPT !.moves = list, !.best = run.best,
                                           !.handle = run.chess, !.chess = c,
                                           !.fen = f, !.turn = c.turn],
                                 [from |-> run.best.from, to |-> run.best.to,
                                  san |-> run.best.san, fen |-> f])
                 After(c) == Moved(c, OracleFen(c))
             IN After(OracleMove(h.chess, run.best)) :
          run \in pickBotMoveRuns(OracleFen(h.chess), list, Other(h.myColor))}

AskBot_part001(h) ==
  IF h.mode # "strict" \/ h.playMode # "bot"
       \/ ~BotToMove(h.chess, Other(h.myColor)) THEN {h}
  ELSE UNION {maybeBotMove_part001(h, list) : list \in MovesAnswers(h.chess)}

\* the effects of part_001 after a handler took the session from h0 to h
Effects_part001(h0, h) ==
  LET botDue == h.playMode # h0.playMode \/ h.mode # h0.mode
                  \/ h.myColor # h0.myColor
  IN UNION {{IF h2.fen # synced.fen THEN SyncEffect_part001(h2) ELSE h2 :
               h2 \in IF botDue THEN AskBot_part001(synced) ELSE {synced}} :
            synced \in {IF h.fen # h0.fen \/ h.mode # h0.mode
                           THEN SyncEffect_part001(h) ELSE h}}

\* onPieceDropStrict(source, target)
onPieceDropStrict(h, source, target, accepts) ==
  IF ~(accepts /\ DropCandidate(h.chess, source, target))
    THEN {[h EXCEPT !.returned = Return(FALSE)]}
  ELSE LET Moved(move, c, f) ==
             {[r EXCEPT !.returned = Return(TRUE)] :
                r \in AskBot_part001(
                        broadcastMove([h EXCEPT !.chess = c, !.fen = f,
                                                !.turn = c.turn],
                                      [from |-> source, to |-> target,
                                       san |-> move.san, fen |-> f]))}
           After(move, c) == Moved(move, c, OracleFen(c))
           Accepted(move) == After(move, OracleMove(h.chess, move))
       IN Accepted(MoveOf(h.chess, source, target))

\* onPieceDropSandbox(source, target): exportFEN() is the one of the render
\* the handler belongs to, and reads the sandboxPos and turn of that render
onPieceDropSandbox(h, source, target) ==
  IF source \notin DOMAIN h.sandboxPos THEN [h EXCEPT !.returned = Return(FALSE)]
  ELSE LET piece == h.sandboxPos[source]
           next == Delete(Put(h.sandboxPos, target, piece), source)
       IN [broadcastMove([h EXCEPT !.sandboxPos = next, !.turn = Other(h.turn)],
                         [from |-> source, to |-> target,
                          san |-> piece \o <<":">> \o source \o <<"-">> \o target,
                          fen |-> exportFEN(h)])
             EXCEPT !.returned = Return(TRUE)]

\* resetToStart() of part_001
resetToStart_part001(h) ==
  IF h.mode = "strict"
    THEN [h EXCEPT !.chess = StartChess, !.fen = StartFen, !.turn = <<"w">>,
                   !.status = ""]
  ELSE [h EXCEPT !.sandboxPos = EmptyPos, !.turn = <<"w">>, !.status = ""]

\* onSquareClick(square) of part_001
onSquareClick_part001(h, square) ==
  IF ~h.edit THEN h
  ELSE [h EXCEPT !.sandboxPos = IF selectedPalette # Null
                                  THEN Put(h.sandboxPos, square, selectedPalette)
                                ELSE Delete(h.sandboxPos, square),
                 !.mode = "sandbox"]

\* the board of part_001 calls the handler of the mode
DropPiece_part001(source, target) ==
  /\ page = "part_001"
  /\ ~edit
  /\ Handler("onPieceDrop", <<source, target>>)
  /\ IF mode = "strict"
       THEN \E accepts \in {a \in BOOLEAN : a => DropCandidate(chess, source, target)} :
              \E h0 \in {Now} :
                \E h \in onPieceDropStrict(Fresh(h0), source, target, accepts) :
                  \E r \in Effects_part001(h0, h) : Commit(r)
     ELSE \E h0 \in {Now} :
       \E h \in {onPieceDropSandbox(Fresh(h0), source, target)} :
         \E r \in Effects_part001(h0, h) : Commit(r)
  /\ UNCHANGED <<editFields, roomFields>>

ImportText_part001(text) ==
  /\ page = "part_001"
  /\ Handler("importFENText", <<text>>)
  /\ \E h0 \in {Now} :
       \E h \in {importFENText_part001(Fresh(h0), text)} :
         \E r \in Effects_part001(h0, h) : Commit(r)
  /\ UNCHANGED <<editFields, roomFields>>

ReceiveMove_part001(payload) ==
  /\ page = "part_001"
  /\ joined
  /\ Handler("onMove", <<payload>>)
  /\ \E h0 \in {Now} :
       \E h \in {onMove_part001(Fresh(h0), payload)} :
         \E r \in Effects_part001(h0, h) : Commit(r)
  /\ UNCHANGED <<editFields, roomFields>>

Reset_part001 ==
  /\ page = "part_001"
  /\ Handler("resetToStart", <<>>)
  /\ \E h0 \in {Now} :
       \E h \in {resetToStart_part001(Fresh(h0))} :
         \E r \in Effects_part001(h0, h) : Commit(r)
  /\ UNCHANGED <<editFields, roomFields>>

ClickSquare_part001(square) ==
  /\ page = "part_001"
  /\ Handler("onSquareClick", <<square>>)
  /\ \E h0 \in {Now} :
       \E h \in {onSquareClick_part001(Fresh(h0), square)} :
         \E r \in Effects_part001(h0, h) : Commit(r)
  /\ UNCHANGED <<editFields, roomFields>>

\* onClick of the edit button of part_001: setEdit(v => !v)
setEdit ==
  /\ page = "part_001"
  /\ Handler("setEdit", <<>>)
  /\ Commit([Fresh(Now) EXCEPT !.edit = ~edit])
  /\ UNCHANGED <<editFields, roomFields>>

-----------------------------------------------------------------------------
(* A session of either page from its construction on *)

\* the effects of the page the session runs
PageEffects(h0, h) ==
  IF page = "index" THEN Effects(h0, h)
  ELSE Effects_part001(h0, h)

\* onChange of the mode select: setMode(m)
setMode(m) ==
  /\ m # mode
  /\ Handler("setMode", <<m>>)
  /\ \E h0 \in {Now} :
       \E h \in {[Fresh(h0) EXCEPT !.mode = m]} :
         \E r \in PageEffects(h0, h) : Commit(r)
  /\ UNCHANGED <<editFields, roomFields>>

\* onChange of the play-mode select
SelectPlayMode(pm) ==
  /\ Handler("setPlayMode", <<pm>>)
  /\ pm # playMode
  /\ \E h0 \in {Now} :
       \E h \in {[Fresh(h0) EXCEPT !.playMode = pm]} :
         \E r \in PageEffects(h0, h) : Commit(r)
  /\ UNCHANGED <<editFields, roomFields>>

\* onSelect of the palette: setSelectedPalette(p)
setSelectedPalette(p) ==
  /\ page \in HomeCopies => edit
  /\ p # selectedPalette
  /\ Handler("setSelectedPalette", <<p>>)
  /\ selectedPalette' = p
  /\ Commit(Fresh(Now))
  /\ UNCHANGED <<editPos, editTurn, castleWK, castleWQ, castleBK, castleBQ,
                 roomFields>>

\* createRoom(), up to ch.subscribe
createRoom ==
  /\ ~joined
  /\ Handler("createRoom", <<>>)
  /\ Commit([Fresh(Now) EXCEPT !.channelRef = TRUE])
  /\ room' = "created"
  /\ opened' = opened \cup {"created"}
  /\ UNCHANGED <<editFields, joined>>

\* joinRoom(id), up to ch.subscribe
joinRoom ==
  /\ ~joined
  /\ Handler("joinRoom", <<>>)
  /\ Commit([Fresh(Now) EXCEPT !.channelRef = TRUE])
  /\ room' = "joined"
  /\ opened' = opened \cup {"joined"}
  /\ UNCHANGED <<editFields, joined>>

\* the colour the subscribe callback of a channel sets
ColorOf(how) == IF how = "created" THEN <<"w">> ELSE <<"b">>

\* the subscribe callback of a channel runs with status SUBSCRIBED
Subscribed(how) ==
  /\ how \in opened
  /\ Handler("subscribed", <<how>>)
  /\ joined' = TRUE
  /\ \E h0 \in {Now} :
       \E h \in {[Fresh(h0) EXCEPT !.myColor = ColorOf(how)]} :
         \E r \in PageEffects(h0, h) : Commit(r)
  /\ UNCHANGED <<editFields, room, opened>>

\* the hooks and refs of a session as Home() constructs them
Construction ==
  /\ fen = StartFen
  /\ chess = StartChess
  /\ edit = FALSE
  /\ editPos = EmptyPos
  /\ editTurn = <<"w">>
  /\ castleWK = FALSE /\ castleWQ = FALSE /\ castleBK = FALSE /\ castleBQ = FALSE
  /\ previewEP = None
  /\ encoded = None
  /\ decoded = None
  /\ playMode = "none"
  /\ myColor = <<"w">>
  /\ moves = <<>>
  /\ best = None
  /\ channelRef = FALSE
  /\ joined = FALSE
  /\ room = "none"
  /\ opened = {}
  /\ sent = <<>>
  /\ handle = None
  /\ mode = "strict"
  /\ status = ""
  /\ shownTurn = <<"w">>
  /\ selectedPalette = Null
  /\ sandboxPos = EmptyPos
  /\ returned = None
  /\ event = None
  /\ steps = 0

InitPage ==
  /\ Construction
  /\ pc = "page"
  /\ page \in {"index", "part_001"}
  /\ oracleStrict \in IF page = "index" THEN BOOLEAN ELSE {FALSE}
  /\ peer = None

NextPage ==
  \/ \E drop \in Drops : DropPiece(drop[1], drop[2])
  \/ \E text \in ImportTexts : ImportText(text)
  \/ \E payload \in Payloads : ReceiveMove(payload)
  \/ \E m \in {"strict", "sandbox"} : setMode(m)
  \/ \E pm \in {"none", "bot"} : SelectPlayMode(pm)
  \/ resetToStart
  \/ toggleEdit
  \/ \E p \in PaletteChoices : setSelectedPalette(p)
  \/ \E square \in ClickSquares : onSquareClick(square)
  \/ ApplyEdit
  \/ createRoom
  \/ joinRoom
  \/ \E how \in {"created", "joined"} : Subscribed(how)
  \/ \E drop \in Drops : DropPiece_part001(drop[1], drop[2])
  \/ \E text \in ImportTexts : ImportText_part001(text)
  \/ \E payload \in Payloads : ReceiveMove_part001(payload)
  \/ Reset_part001
  \/ \E square \in ClickSquares : ClickSquare_part001(square)
  \/ setEdit

Spec == InitPage /\ [][NextPage]_vars

-----------------------------------------------------------------------------
(* Apply Edit pressed in a session of src/pages/index.tsx whose user has
   built a position in the editor *)

MaxEdits == 1      \* pieces the user placed in the editor besides the kings

\* the session is in edit mode, in either mode and with or without the bot;
\* the editor holds a position the user built, and the status may still
\* show the message of a commit that failed
InitCommit ==
  /\ pc = "editing"
  /\ page = "index"
  /\ oracleStrict \in BOOLEAN
  /\ peer = None
  /\ fen = StartFen
  /\ chess = StartChess
  /\ edit = TRUE
  /\ editPos \in CodecPositions(MaxEdits)
  /\ editTurn \in Turns
  /\ castleWK \in BOOLEAN
  /\ castleWQ = FALSE /\ castleBK = FALSE /\ castleBQ = FALSE
  /\ previewEP = None
  /\ encoded = None
  /\ decoded = None
  /\ playMode \in {"none", "bot"}
  /\ myColor = <<"w">>
  /\ moves = <<>>
  /\ best = None
  /\ channelRef = FALSE
  /\ joined = FALSE
  /\ room = "none"
  /\ opened = {}
  /\ sent = <<>>
  /\ handle = None
  /\ mode \in {"strict", "sandbox"}
  /\ status \in {"", "Position rejected by engine."}
  /\ shownTurn = <<"w">>
  /\ selectedPalette = Null
  /\ sandboxPos = EmptyPos
  /\ returned = None
  /\ event = None
  /\ steps = 0

\* the user presses Apply Edit: commitEdit() and the effects after it
PressApplyEdit ==
  /\ pc = "editing"
  /\ pc' = "applied"
  /\ event' = [name |-> "commitEdit", args |-> <<>>]
  /\ \E h0 \in {Now} :
       \E h \in {commitEdit(Fresh(h0))} :
         \E r \in Effects(h0, h) : Commit(r)
  /\ UNCHANGED <<editFields, roomFields, codecVars, page, oracleStrict, peer,
                 steps>>

NextCommit == PressApplyEdit

SpecCommit == InitCommit /\ [][NextCommit]_vars

-----------------------------------------------------------------------------
(* A subscribed session of src/pages/index.tsx whose user does nothing: the
   channel delivers "move" broadcasts, any of them, in any order and as often
   as it likes *)

MaxDeliveries == 3 \* broadcasts the channel delivers

\* the payloads the channel delivers
DeliveredPayloads == Payloads \cup {[fen |-> KnightsFen]}

\* the session created a room and its subscription is confirmed; it is in
\* either mode, with or without the bot, and holds a position it reached
\* before
InitReceive ==
  /\ pc = "listening"
  /\ page = "index"
  /\ oracleStrict \in BOOLEAN
  /\ peer = None
  /\ fen \in {StartFen, KnightsFen}
  /\ chess = OracleLoad(fen)
  /\ edit = FALSE
  /\ editPos = EmptyPos
  /\ editTurn = <<"w">>
  /\ castleWK = FALSE /\ castleWQ = FALSE /\ castleBK = FALSE /\ castleBQ = FALSE
  /\ previewEP = None
  /\ encoded = None
  /\ decoded = None
  /\ playMode \in {"none", "bot"}
  /\ myColor = <<"w">>
  /\ moves = <<>>
  /\ best = None
  /\ channelRef = TRUE
  /\ joined = TRUE
  /\ room = "created"
  /\ opened = {"created"}
  /\ sent = <<>>
  /\ handle = None
  /\ mode \in {"strict", "sandbox"}
  /\ status = ""
  /\ shownTurn = <<"w">>
  /\ selectedPalette = Null
  /\ sandboxPos = EmptyPos
  /\ returned = None
  /\ event = None
  /\ steps = 0

\* the channel delivers a "move" broadcast to the session
Deliver(payload) ==
  /\ pc = "listening"
  /\ steps < MaxDeliveries
  /\ steps' = steps + 1
  /\ event' = [name |-> "onMove", args |-> <<payload>>]
  /\ \E h0 \in {Now} :
       \E h \in {onMove(Fresh(h0), payload)} :
         \E r \in Effects(h0, h) : Commit(r)
  /\ UNCHANGED <<editFields, roomFields, codecVars, page, oracleStrict, peer, pc>>

NextReceive == \E payload \in DeliveredPayloads : Deliver(payload)

SpecReceive == InitReceive /\ [][NextReceive]_vars

-----------------------------------------------------------------------------
(* The editor of src/pages/index.tsx, in both versions of Home(): the user
   enters and leaves edit mode, picks pieces, clicks squares, drops pieces
   and applies the edit, in a session that holds the start position or a
   position it imported, plays alone or against the bot, and has no room,
   has created one, or is subscribed to it and receives "move" broadcasts *)

InitEdit ==
  /\ pc = "edit"
  /\ page \in HomeCopies
  /\ oracleStrict = FALSE
  /\ peer = None
  /\ fen \in {StartFen, EndgameFen}
  /\ chess = OracleLoad(fen)
  /\ shownTurn = chess.turn
  /\ edit = FALSE
  /\ editPos = EmptyPos
  /\ editTurn = <<"w">>
  /\ castleWK = FALSE /\ castleWQ = FALSE /\ castleBK = FALSE /\ castleBQ = FALSE
  /\ previewEP = None
  /\ encoded = None
  /\ decoded = None
  /\ playMode \in {"none", "bot"}
  /\ myColor = <<"w">>
  /\ moves = <<>>
  /\ best = None
  /\ channelRef \in BOOLEAN
  /\ joined \in {FALSE, channelRef}
  /\ room = (IF channelRef THEN "created" ELSE "none")
  /\ opened = (IF channelRef THEN {"created"} ELSE {})
  /\ sent = <<>>
  /\ handle = None
  /\ mode = "strict"
  /\ status = ""
  /\ selectedPalette = Null
  /\ sandboxPos = EmptyPos
  /\ returned = None
  /\ event = None
  /\ steps = 0

\* a piece is dropped on the board of either version
EditDrop(source, target) ==
  /\ page \in HomeCopies
  /\ Handler("onPieceDrop", <<source, target>>)
  /\ \E accepts \in {a \in BOOLEAN : a => DropCandidate(chess, source, target)} :
       \E h0 \in {Now} :
         \E h \in onPieceDrop(Fresh(h0), source, target, accepts) :
           \E r \in Effects(h0, h) : Commit(r)
  /\ UNCHANGED <<editFields, roomFields>>

NextEdit ==
  \/ toggleEdit
  \/ EditBoardButton
  \/ \E p \in PaletteChoices : setSelectedPalette(p)
  \/ \E square \in ClickSquares : onSquareClick(square)
  \/ \E drop \in Drops : EditDrop(drop[1], drop[2])
  \/ \E payload \in Payloads : ReceiveMove(payload)
  \/ ApplyEdit

SpecEdit == InitEdit /\ [][NextEdit]_vars

-----------------------------------------------------------------------------
(* Play against the bot in a session of either page: the user chooses the
   play mode and the mode, drops pieces, and opens rooms whose subscriptions
   are confirmed *)

PlayDrops == {<<Sq("d", 2), Sq("d", 4)>>, <<Sq("e", 2), Sq("e", 4)>>}

InitPlay ==
  /\ Construction
  /\ pc = "play"
  /\ page \in {"index", "part_001"}
  /\ oracleStrict = FALSE
  /\ peer = None

NextPlay ==
  \/ \E drop \in PlayDrops : DropPiece(drop[1], drop[2])
  \/ \E drop \in PlayDrops : DropPiece_part001(drop[1], drop[2])
  \/ \E m \in {"strict", "sandbox"} : setMode(m)
  \/ \E pm \in {"none", "bot"} : SelectPlayMode(pm)
  \/ createRoom
  \/ joinRoom
  \/ \E how \in {"created", "joined"} : Subscribed(how)

SpecPlay == InitPlay /\ [][NextPlay]_vars

-----------------------------------------------------------------------------
(* Two sessions of src/pages/index.tsx in one room.  The variables of the
   module hold the session that creates the room; `peer` holds the one that
   joins it.  A broadcast reaches the other session when that session is
   subscribed at the time of the send, each message once and in the order
   of sending, and never its own sender.  peer.got counts the messages of
   the first session that reached the second or were sent before it
   subscribed, peer.given those of the second; peer.early records that a
   piece was moved before the room was complete, peer.raced that a piece
   was moved while a message was in flight. *)

MaxRoomSteps == 8

RoomDrops == {<<Sq("e", 2), Sq("e", 4)>>, <<Sq("d", 2), Sq("d", 4)>>}

\* the hooks and refs Commit assigns
nowVars == <<fen, chess, mode, playMode, myColor, status, shownTurn, sent, best,
             handle, moves, edit, channelRef, returned, sandboxPos>>

\* a session as Home() constructs it
Constructed ==
  [fen |-> StartFen, chess |-> StartChess, mode |-> "strict",
   playMode |-> "none", myColor |-> <<"w">>, status |-> "", turn |-> <<"w">>,
   sent |-> <<>>, best |-> None, handle |-> None, moves |-> <<>>,
   edit |-> FALSE, channelRef |-> FALSE, returned |-> None,
   sandboxPos |-> EmptyPos]

InitRoom ==
  /\ Construction
  /\ pc = "room"
  /\ page = "index"
  /\ oracleStrict = FALSE
  /\ peer = [s |-> Constructed, opened |-> FALSE, joined |-> FALSE,
             got |-> 0, given |-> 0, early |-> FALSE, raced |-> FALSE]

\* a step of one of the two sessions
RoomStep(name, args) ==
  /\ pc = "room"
  /\ steps < MaxRoomSteps
  /\ steps' = steps + 1
  /\ event' = [name |-> name, args |-> args]
  /\ UNCHANGED <<pc, codecVars, page, oracleStrict, editFields>>

\* the room is complete: both sessions are subscribed
Complete == joined /\ peer.joined

\* createRoom() in the first session
RoomCreate ==
  /\ room = "none"
  /\ RoomStep("createRoom", <<>>)
  /\ Commit([Fresh(Now) EXCEPT !.channelRef = TRUE])
  /\ room' = "created"
  /\ opened' = {"created"}
  /\ UNCHANGED <<joined, peer>>

\* the subscribe callback of the first session runs with SUBSCRIBED
RoomCreatorSubscribed ==
  /\ "created" \in opened
  /\ ~joined
  /\ RoomStep("subscribed", <<"created">>)
  /\ joined' = TRUE
  /\ \E h0 \in {Now} :
       \E r \in Effects(h0, [Fresh(h0) EXCEPT !.myColor = ColorOf("created")]) :
         Commit(r)
  /\ UNCHANGED <<room, opened, peer>>

\* joinRoom(id) in the second session, with the code of the created room
RoomJoin ==
  /\ room = "created"
  /\ ~peer.opened
  /\ RoomStep("peer.joinRoom", <<>>)
  /\ peer' = [peer EXCEPT !.s = [Fresh(@) EXCEPT !.channelRef = TRUE],
                          !.opened = TRUE]
  /\ UNCHANGED <<nowVars, roomFields>>

\* the subscribe callback of the second session runs with SUBSCRIBED
RoomJoinerSubscribed ==
  /\ peer.opened
  /\ ~peer.joined
  /\ RoomStep("peer.subscribed", <<"joined">>)
  /\ \E r \in Effects(peer.s, [Fresh(peer.s) EXCEPT !.myColor = ColorOf("joined")]) :
       peer' = [peer EXCEPT !.s = r, !.joined = TRUE]
  /\ UNCHANGED <<nowVars, roomFields>>

\* a message one session sent has not reached the other yet
InFlight == peer.got < Len(sent) \/ peer.given < Len(peer.s.sent)

\* a piece is dropped on the board of the first session
RoomDrop(source, target) ==
  /\ RoomStep("onPieceDrop", <<source, target>>)
  /\ \E accepts \in {a \in BOOLEAN : a => DropCandidate(chess, source, target)} :
       \E h0 \in {Now} :
         \E h \in onPieceDrop(Fresh(h0), source, target, accepts) :
           \E r \in Effects(h0, h) :
             /\ Commit(r)
             /\ peer' = [peer EXCEPT
                           !.early = @ \/ (r.fen # fen /\ ~Complete),
                           !.raced = @ \/ (r.fen # fen /\ InFlight),
                           !.got = IF peer.joined THEN @ ELSE Len(r.sent)]
  /\ UNCHANGED roomFields

\* a piece is dropped on the board of the second session
RoomPeerDrop(source, target) ==
  /\ RoomStep("peer.onPieceDrop", <<source, target>>)
  /\ \E accepts \in {a \in BOOLEAN : a => DropCandidate(peer.s.chess, source, target)} :
       \E h \in onPieceDrop(Fresh(peer.s), source, target, accepts) :
         \E r \in Effects(peer.s, h) :
           peer' = [peer EXCEPT
                      !.s = r,
                      !.early = @ \/ (r.fen # peer.s.fen /\ ~Complete),
                      !.raced = @ \/ (r.fen # peer.s.fen /\ InFlight),
                      !.given = IF joined THEN @ ELSE Len(r.sent)]
  /\ UNCHANGED <<nowVars, roomFields>>

\* the next message of the first session reaches the second
RoomDeliverToPeer ==
  /\ peer.joined
  /\ peer.got < Len(sent)
  /\ RoomStep("peer.onMove", <<sent[peer.got + 1]>>)
  /\ \E r \in Effects(peer.s, onMove(Fresh(peer.s), sent[peer.got + 1])) :
       peer' = [peer EXCEPT !.s = r, !.got = @ + 1]
  /\ UNCHANGED <<nowVars, roomFields>>

\* the next message of the second session reaches the first
RoomDeliver ==
  /\ joined
  /\ peer.given < Len(peer.s.sent)
  /\ RoomStep("onMove", <<peer.s.sent[peer.given + 1]>>)
  /\ \E h0 \in {Now} :
       \E r \in Effects(h0, onMove(Fresh(h0), peer.s.sent[peer.given + 1])) :
         Commit(r)
  /\ peer' = [peer EXCEPT !.given = @ + 1]
  /\ UNCHANGED roomFields

NextRoom ==
  \/ RoomCreate
  \/ RoomCreatorSubscribed
  \/ RoomJoin
  \/ RoomJoinerSubscribed
  \/ \E drop \in RoomDrops : RoomDrop(drop[1], drop[2])
  \/ \E drop \in RoomDrops : RoomPeerDrop(drop[1], drop[2])
  \/ RoomDeliverToPeer
  \/ RoomDeliver

SpecRoom == InitRoom /\ [][NextRoom]_vars

-----------------------------------------------------------------------------
(* The two sessions from the moment their room is complete: createRoom, its
   SUBSCRIBED callback, joinRoom and its SUBSCRIBED callback have run, and no
   piece was moved meanwhile.  The users move white and black pieces. *)

TurnDrops == RoomDrops \cup {<<Sq("e", 7), Sq("e", 5)>>, <<Sq("d", 7), Sq("d", 5)>>}

\* a session with its channel open and its colour set
InRoom(how) ==
  [Constructed EXCEPT !.channelRef = TRUE, !.myColor = ColorOf(how)]

InitTurns ==
  /\ pc = "room"
  /\ page = "index"
  /\ oracleStrict = FALSE
  /\ \E h \in {InRoom("created")} :
       /\ fen = h.fen /\ chess = h.chess /\ mode = h.mode
       /\ playMode = h.playMode /\ myColor = h.myColor /\ status = h.status
       /\ shownTurn = h.turn /\ sent = h.sent /\ best = h.best
       /\ handle = h.handle /\ moves = h.moves /\ edit = h.edit
       /\ channelRef = h.channelRef /\ returned = h.returned
       /\ sandboxPos = h.sandboxPos
  /\ editPos = EmptyPos
  /\ editTurn = <<"w">>
  /\ castleWK = FALSE /\ castleWQ = FALSE /\ castleBK = FALSE /\ castleBQ = FALSE
  /\ selectedPalette = Null
  /\ previewEP = None
  /\ encoded = None
  /\ decoded = None
  /\ joined = TRUE
  /\ room = "created"
  /\ opened = {"created"}
  /\ peer = [s |-> InRoom("joined"), opened |-> TRUE, joined |-> TRUE,
             got |-> 0, given |-> 0, early |-> FALSE, raced |-> FALSE]
  /\ event = [name |-> "peer.subscribed", args |-> <<"joined">>]
  /\ steps = 4

NextTurns ==
  \/ \E drop \in TurnDrops : RoomDrop(drop[1], drop[2])
  \/ \E drop \in TurnDrops : RoomPeerDrop(drop[1], drop[2])
  \/ RoomDeliverToPeer
  \/ RoomDeliver

SpecTurns == InitTurns /\ [][NextTurns]_vars

-----------------------------------------------------------------------------
(* Freeform strings of src/unnamed/part_001: exportFEN() in a session in
   sandbox mode that holds any mapping, and importFENText of the string it
   gives in a session as Home() constructs it *)

\* mappings with at most n squares set: no king, several kings, pawns on
\* ranks 1 and 8
FreeformPositions(n) == Placements(ExtraSquares, ExtraPieces \cup {wK}, n)

InitFreeform ==
  /\ pc = "freeform"
  /\ page = "part_001"
  /\ oracleStrict = FALSE
  /\ peer = None
  /\ fen = StartFen
  /\ chess = StartChess
  /\ edit = FALSE
  /\ editPos = EmptyPos
  /\ editTurn = <<"w">>
  /\ castleWK = FALSE /\ castleWQ = FALSE /\ castleBK = FALSE /\ castleBQ = FALSE
  /\ previewEP = None
  /\ encoded = None
  /\ decoded = None
  /\ playMode = "none"
  /\ myColor = <<"w">>
  /\ moves = <<>>
  /\ best = None
  /\ channelRef = FALSE
  /\ joined = FALSE
  /\ room = "none"
  /\ opened = {}
  /\ sent = <<>>
  /\ handle = None
  /\ mode = "sandbox"
  /\ status = ""
  /\ shownTurn \in Turns
  /\ selectedPalette = Null
  /\ sandboxPos \in FreeformPositions(MaxExtra)
  /\ returned = None
  /\ event = None
  /\ steps = 0

\* exportFEN(), Object.entries listing the squares in one order or the
\* opposite one
CallExportFEN ==
  /\ pc = "freeform"
  /\ pc' = "exported"
  /\ \E sqs \in {SeqOf(DOMAIN sandboxPos), Reverse(SeqOf(DOMAIN sandboxPos))} :
       encoded' = [fen |-> SandboxString(Now, sqs)]
  /\ UNCHANGED <<fen, editorVars, previewEP, decoded, botVars, sessionVars>>

\* importFENText of the exported string in a new session, and the effects
\* after it: the session it leaves
CallImportFENText ==
  /\ pc = "exported"
  /\ pc' = "imported"
  /\ decoded' \in Effects_part001(Constructed,
                                  importFENText_part001(Constructed, encoded.fen))
  /\ UNCHANGED <<fen, editorVars, previewEP, encoded, botVars, sessionVars>>

NextFreeform == CallExportFEN \/ CallImportFENText

SpecFreeform == InitFreeform /\ [][NextFreeform]_vars

-----------------------------------------------------------------------------
(* Properties of the codec *)

CountOf(pos, piece) == Cardinality({sq \in DOMAIN pos : pos[sq] = piece})
OneKingEach(pos) == CountOf(pos, wK) = 1 /\ CountOf(pos, bK) = 1
\* the ranks among 1 and 8 on which a pawn stands
BackRankPawnRanks(pos) ==
  {r \in {1, 8} : \E i \in 1..8 : At(pos, Sq(FILES[i], r)) \in {wP, bP}}
Called == pc \in {"encoded", "decoded"}
Emitted == Called /\ encoded.fen # Null
EmittedFields == split(encoded.fen, " ")

\* C1: for an editor position with one king a side and no pawn on rank 1 or
\* 8, any side and any castling flags, posObjToFen emits a string and
\* fenToPosObj of that string returns the same mapping, side and flags.
C1_RoundTrip ==
  /\ (Called /\ OneKingEach(editPos) /\ BackRankPawnRanks(editPos) = {})
       => encoded.fen # Null
  /\ pc = "decoded" =>
       /\ ~IsThrown(decoded)
       /\ decoded.pos = editPos
       /\ decoded.turn = editTurn
       /\ decoded.castle = Flags

C1_Witness ==
  /\ pc = "decoded"
  /\ Cardinality(DOMAIN editPos) >= 4
  /\ At(editPos, Sq("a", 8)) = bN
  /\ editTurn = <<"b">>
  /\ castleWK /\ ~castleWQ /\ castleBQ

\* C3 as claimed: every position whose king counts are not 1 and 1 is refused
\* with the error that reports both counts.
C3_KingCountErrorAlways ==
  (Called /\ ~OneKingEach(editPos)) =>
    /\ encoded.fen = Null
    /\ encoded.error = KingCountError(CountOf(editPos, wK), CountOf(editPos, bK))

\* C3: every position whose king counts are not 1 and 1 is refused (fen =
\* null, no string); the error reports both counts when no pawn stands on rank
\* 1 or 8, and is the pawn-rank error when one does.
C3_KingCountRejected ==
  (Called /\ ~OneKingEach(editPos)) =>
    /\ encoded.fen = Null
    /\ DOMAIN encoded = {"fen", "error"}
    /\ BackRankPawnRanks(editPos) = {} =>
         encoded.error = KingCountError(CountOf(editPos, wK), CountOf(editPos, bK))
    /\ BackRankPawnRanks(editPos) # {} =>
         \E r \in BackRankPawnRanks(editPos) : encoded.error = PawnRankError(r)

C3_Witness ==
  /\ Called
  /\ CountOf(editPos, wK) = 2 /\ CountOf(editPos, bK) = 1
  /\ encoded.fen = Null
  /\ encoded.error = KingCountError(2, 1)

\* C4: every position with a pawn on rank 1 or 8 is refused (fen = null, no
\* string) with the error naming a rank on which a pawn stands.
C4_PawnRankRejected ==
  (Called /\ BackRankPawnRanks(editPos) # {}) =>
    /\ encoded.fen = Null
    /\ \E r \in BackRankPawnRanks(editPos) : encoded.error = PawnRankError(r)

C4_Witness ==
  /\ Called
  /\ At(editPos, Sq("a", 1)) = wP
  /\ BackRankPawnRanks(editPos) = {1}
  /\ OneKingEach(editPos)
  /\ encoded.fen = Null
  /\ encoded.error = PawnRankError(1)

\* C5: the third field of an emitted string is the letters of the set flags in
\* the order K, Q, k, q and nothing else, and "-" when no flag is set, for
\* every position.
C5_CastlingField ==
  Emitted =>
    LET set == {c \in {"K", "Q", "k", "q"} :
                  \/ (c = "K" /\ castleWK) \/ (c = "Q" /\ castleWQ)
                  \/ (c = "k" /\ castleBK) \/ (c = "q" /\ castleBQ)}
        want == SelectSeq(<<"K", "Q", "k", "q">>, LAMBDA c : c \in set)
    IN /\ Len(EmittedFields) >= 3
       /\ EmittedFields[3] = (IF set = {} THEN <<"-">> ELSE want)

C5_Witness ==
  /\ Emitted
  /\ ~castleWK /\ ~castleWQ /\ ~castleBK /\ ~castleBQ
  /\ At(editPos, Sq("h", 1)) = wR
  /\ EmittedFields[3] = <<"-">>

\* C6: an emitted string has six fields separated by single spaces; the
\* second is the side passed in, the fifth is "0" and the sixth "1", also
\* when the editor was pre-filled from a string with other clocks.
C6_SixFields ==
  Emitted =>
    /\ Len(EmittedFields) = 6
    /\ \A i \in 1..6 : EmittedFields[i] # <<>>
    /\ EmittedFields[2] = editTurn
    /\ EmittedFields[5] = <<"0">>
    /\ EmittedFields[6] = <<"1">>

C6_Witness ==
  /\ Emitted
  /\ PrefilledFrom(fen)
  /\ split(fen, " ")[5] = <<"3", "7">>
  /\ split(fen, " ")[6] = <<"6", "0">>
  /\ EmittedFields[5] = <<"0">>
  /\ EmittedFields[6] = <<"1">>

\* C2.  The files that are en-passant candidates for the side to move: with
\* white to move a black pawn on rank 5, rank 6 of the file empty, a white pawn
\* beside it on rank 5; with black to move a white pawn on rank 4, rank 3
\* empty, a black pawn beside it on rank 4.
EpFrom(turn) == IF turn = <<"w">> THEN 5 ELSE 4
EpTo(turn) == IF turn = <<"w">> THEN 6 ELSE 3
EpCandidateFiles(pos, turn) ==
  {i \in 1..8 :
     /\ At(pos, Sq(FILES[i], EpFrom(turn))) = (IF turn = <<"w">> THEN bP ELSE wP)
     /\ Sq(FILES[i], EpTo(turn)) \notin DOMAIN pos
     /\ \E j \in {i - 1, i + 1} \cap (1..8) :
          At(pos, Sq(FILES[j], EpFrom(turn))) = (IF turn = <<"w">> THEN wP ELSE bP)}

FlankedE5 ==
  Put(Put(Put(EmptyPos, Sq("e", 5), bP), Sq("d", 5), wP), Sq("f", 5), wP)

\* C2: autoDetectEnPassant returns the target square of the candidate file
\* when exactly one file is a candidate and "-" otherwise; black e5 between
\* white d5 and f5 gives "e6", and with a black pawn on c5 as well, "-".
C2_EnPassant ==
  pc = "rendered" =>
    LET cand == EpCandidateFiles(editPos, editTurn)
    IN /\ Cardinality(cand) = 1 =>
            \E i \in cand : previewEP = Sq(FILES[i], EpTo(editTurn))
       /\ Cardinality(cand) # 1 => previewEP = <<"-">>
       /\ (editPos = FlankedE5 /\ editTurn = <<"w">>) => previewEP = <<"e", "6">>
       /\ (editPos = Put(FlankedE5, Sq("c", 5), bP) /\ editTurn = <<"w">>)
            => previewEP = <<"-">>

C2_Witness ==
  /\ pc = "rendered"
  /\ editPos = Put(FlankedE5, Sq("c", 5), bP)
  /\ editTurn = <<"w">>
  /\ EpCandidateFiles(editPos, editTurn) = {3, 5}
  /\ previewEP = <<"-">>

\* The fields of the input, and the characters a placement may hold
TextFields == split(fen, " ")
WhiteSymbols == {"K", "Q", "R", "B", "N", "P"}
BlackSymbols == {"k", "q", "r", "b", "n", "p"}
PlacementChars ==
  WhiteSymbols \cup BlackSymbols
    \cup {"/", "0", "1", "2", "3", "4", "5", "6", "7", "8", "9"}
HasForeignChar(placement) ==
  \E i \in 1..Len(placement) : placement[i] \notin PlacementChars
\* the piece a placement symbol stands for
PieceOfSymbol(ch) ==
  CASE ch \in WhiteSymbols -> <<"w", ch>>
    [] ch = "k" -> bK [] ch = "q" -> bQ [] ch = "r" -> bR
    [] ch = "b" -> bB [] ch = "n" -> bN [] ch = "p" -> bP

\* C7 as claimed: fenToPosObj fails, and returns no position, for every input
\* with fewer than 3 space-separated fields.
C7_FailsOnFewFields ==
  (pc = "parsed" /\ Len(TextFields) < 3) => IsThrown(decoded)

\* C7: fenToPosObj does not fail for want of fields.  For an input with fewer
\* than 3 space-separated fields whose first field holds only placement
\* characters it returns a position: the side is 'b' when the second field is
\* exactly "b" and 'w' otherwise (also when it is absent), and all four
\* castling flags are false.  It fails only on a foreign placement character.
C7_FewFieldsDefaults ==
  (pc = "parsed" /\ Len(TextFields) < 3) =>
    /\ IsThrown(decoded) <=> HasForeignChar(TextFields[1])
    /\ ~IsThrown(decoded) =>
         /\ decoded.turn =
              (IF Len(TextFields) = 2 /\ TextFields[2] = <<"b">>
                 THEN <<"b">> ELSE <<"w">>)
         /\ decoded.castle = [K |-> FALSE, Q |-> FALSE, k |-> FALSE, q |-> FALSE]

C7_Witness ==
  /\ pc = "parsed"
  /\ fen = <<"K", "/", "p">>
  /\ Len(TextFields) = 1
  /\ ~IsThrown(decoded)
  /\ decoded.pos = Put(Put(EmptyPos, Sq("a", 8), wK), Sq("a", 7), bP)
  /\ decoded.turn = <<"w">>

\* C8: fenToPosObj fails, returning no mapping, exactly when the placement
\* field holds a character that is not '/', a digit or one of K Q R B N P in
\* either case; otherwise every piece of the mapping is the white piece of an
\* uppercase letter of the placement or the black piece of a lowercase one.
C8_ForeignCharFails ==
  pc = "parsed" =>
    /\ HasForeignChar(TextFields[1]) =>
         (IsThrown(decoded) /\ DOMAIN decoded = {"threw"})
    /\ ~HasForeignChar(TextFields[1]) =>
         /\ ~IsThrown(decoded)
         /\ {decoded.pos[k] : k \in DOMAIN decoded.pos} \subseteq
              {PieceOfSymbol(TextFields[1][i]) :
                 i \in {j \in 1..Len(TextFields[1]) :
                          TextFields[1][j] \in WhiteSymbols \cup BlackSymbols}}
         /\ (\E i \in 1..Len(TextFields[1]) :
               TextFields[1][i] \in WhiteSymbols \cup BlackSymbols)
              => DOMAIN decoded.pos # {}

C8_Witness ==
  /\ pc = "parsed"
  /\ fen = <<"K", "x", " ", "w">>
  /\ IsThrown(decoded)

\* The bot was asked for a move: maybeBotMove got past its guards
BotAsked == pc = "ran" /\ best # None
Elements(list) == {list[i] : i \in 1..Len(list)}

MaterialDelta(c, m) ==
  (materialScore(OracleMove(c, m)) - materialScore(c))
    * (IF c.turn = <<"w">> THEN 1 ELSE -1)

C11_OracleUntouched ==
  [][(pc = "idle" /\ best' # None) =>
       /\ handle' = chess
       /\ best' = NullMove => (chess' = chess /\ fen' = fen)
       /\ best' # NullMove =>
            /\ chess' = OracleMove(chess, best')
            /\ chess' # chess
            /\ fen' = OracleFen(chess')
            /\ Len(sent') <= Len(sent) + 1]_vars

C11_Witness ==
  /\ BotAsked
  /\ Len(moves) = MaxMoves
  /\ best # NullMove
  /\ best.captured # Undefined
  /\ handle # chess
  /\ handle.turn = best.color
  /\ CountOf(handle.board, wK) = 1


-----------------------------------------------------------------------------
(* Properties of the synchronization protocol and of the session *)

\* the handler `name` has just run
Ran(name) == event # None /\ event.name = name
\* the step is a run of the handler `name`
Runs(name) == event'.name = name

\* C12: in the page of index.tsx, when a "move" broadcast arrives whose
\* payload carries a string the oracle accepts, the string becomes the
\* session's exchange string and the oracle handle holds its position; when
\* the oracle rejects the string, or the payload carries no string, the
\* exchange string, the oracle handle, the mode, the edit flag and the editor
\* are unchanged.  In both cases nothing is sent.
C12_ReceiveValidated ==
  [][(Runs("onMove") /\ page = "index") =>
       LET rf == PayloadFen(event'.args[1])
       IN /\ sent' = sent
          /\ IF rf # Undefined /\ OracleAccepts(rf, oracleStrict)
               THEN fen' = rf /\ chess' = OracleLoad(rf)
             ELSE /\ fen' = fen /\ chess' = chess /\ mode' = mode
                  /\ UNCHANGED <<edit, editFields>>]_vars

\* a string the oracle accepts was received over the subscribed channel and
\* replaced the starting position
C12_Witness ==
  /\ page = "index"
  /\ Ran("onMove")
  /\ PayloadFen(event.args[1]) = EndgameFen
  /\ joined
  /\ fen = EndgameFen
  /\ chess = OracleLoad(EndgameFen)
  /\ chess # StartChess
  /\ sent = <<>>


\* the exchange string is in the freeform form
IsFreeform(text) == text # Undefined /\ startsWith(text, Sentinel)

\* C13: when a "move" broadcast arrives whose payload carries a freeform
\* string, the session takes the position and the side to move written in
\* the string in place of its own and is in freeform (sandbox) mode
\* afterwards; the oracle handle is not touched.
C13_ReceiveFreeform ==
  [][(Runs("onMove") /\ IsFreeform(PayloadFen(event'.args[1]))) =>
       LET d == ReadSandbox(PayloadFen(event'.args[1]))
       IN /\ mode' = "sandbox"
          /\ sandboxPos' = d.pos
          /\ shownTurn' = d.turn
          /\ chess' = chess]_vars

\* the string the session hands out for its position: exportFEN()
ExchangeString(h) == IF page = "index" THEN h.fen ELSE exportFEN(h)

\* the session after the "move" handler of its page ran on h0, effects
\* included
Delivered(h0, payload) ==
  IF page = "index" THEN Effects(h0, onMove(Fresh(h0), payload))
  ELSE Effects_part001(h0, onMove_part001(Fresh(h0), payload))

\* C14: delivering a "move" message a second time changes nothing: after a
\* delivery, the same payload delivered again leaves the exchange string,
\* the mode and the side to move as the first delivery left them.
C14_DeliverTwice ==
  [][Runs("onMove") =>
       \A twice \in Delivered(Now', event'.args[1]) :
         /\ ExchangeString(twice) = ExchangeString(Now')
         /\ twice.fen = fen'
         /\ twice.mode = mode'
         /\ twice.turn = shownTurn']_vars

\* a freeform string with black to move was delivered to a session in
\* validated mode with white to move
C14_Witness ==
  /\ page = "part_001"
  /\ Ran("onMove")
  /\ PayloadFen(event.args[1]) = SandboxText
  /\ mode = "sandbox"
  /\ shownTurn = <<"b">>
  /\ sandboxPos # EmptyPos
  /\ fen = StartFen

\* C15: once a session's subscription is confirmed, its colour is white when
\* the room it is in is one it created and black when it is one it joined,
\* and no later step changes the colour.
C15_ColourStatic ==
  [][/\ joined' => myColor' = ColorOf(room')
     /\ joined => myColor' = myColor]_vars

\* the exchange string of the position a validated session is in after the
\* oracle took the drop source-target
AfterDrop(c, source, target) == OracleFen(OracleMove(c, MoveOf(c, source, target)))

\* C16: a "move" message carries the position its move leads to.  The last
\* message a step sends carries the exchange string the session has after
\* the step, and the message of an accepted drop in validated play carries
\* the string of the position after that drop (a bot reply may follow it in
\* the same step).
C16_MessageCarriesResult ==
  [][Len(sent') > Len(sent) =>
       /\ sent'[Len(sent')].fen = ExchangeString(Now')
       /\ (Runs("onPieceDrop") /\ (page = "index" \/ mode = "strict")) =>
            sent'[Len(sent) + 1].fen =
              AfterDrop(chess, event'.args[1], event'.args[2])]_vars

\* commitEdit() would fail in this state: posObjToFen returns an error or the
\* oracle rejects the string it built
CommitFails ==
  LET Built(built) == built.fen = Null \/ ~OracleAccepts(built.fen, oracleStrict)
  IN Built(posObjToFen(editPos, editTurn, Flags))

\* the string of the payload is missing or one the oracle rejects
Rejected(payload) ==
  PayloadFen(payload) = Undefined \/ ~OracleAccepts(PayloadFen(payload), oracleStrict)

\* the step is one the oracle or the codec refuses
Refused ==
  \/ Runs("importFENText") /\ ~OracleAccepts(event'.args[1], oracleStrict)
  \/ Runs("commitEdit") /\ CommitFails
  \/ Runs("onMove") /\ Rejected(event'.args[1])

\* C17: the exchange string a session holds is always one the oracle accepts
\* on load, and the steps that are refused leave it as it was: an import of
\* a string the oracle rejects, a commit that fails and a received string
\* the oracle rejects.
C17_LastKnownGood ==
  /\ []OracleAccepts(fen, oracleStrict)
  /\ [][Refused => fen' = fen]_vars

\* C19: a drop the oracle rejects has no effect.  In validated play, a drop
\* from a square that holds no piece of the side to move is rejected, and
\* every rejected drop returns false and leaves the exchange string and the
\* oracle position as they were, sends nothing and does not ask the bot for
\* a move; a drop that returns true has moved a piece.
C19_RejectedMove ==
  [][(Runs("onPieceDrop") /\ (page = "index" \/ mode = "strict")) =>
       /\ (\/ event'.args[1] \notin DOMAIN chess.board
           \/ chess.board[event'.args[1]][1] # chess.turn[1]) => returned' = Return(FALSE)
       /\ returned' = Return(FALSE) =>
            /\ fen' = fen
            /\ chess' = chess
            /\ sent' = sent
            /\ "none" \in DOMAIN best'
            /\ moves' = <<>>
       /\ returned' = Return(TRUE) => chess' # chess /\ fen' = OracleFen(chess')]_vars

\* with the bot playing black and black to move, the oracle rejected a drop
\* of a black pawn
C19_Witness ==
  /\ Ran("onPieceDrop")
  /\ event.args = <<Sq("d", 5), Sq("d", 4)>>
  /\ returned = Return(FALSE)
  /\ ~edit
  /\ playMode = "bot"
  /\ BotToMove(chess, Other(myColor))
  /\ DropCandidate(chess, Sq("d", 5), Sq("d", 4))
  /\ fen = EndgameFen
  /\ "none" \in DOMAIN best

\* C20: a commit that fails changes nothing but the status message.  When
\* posObjToFen returns an error or the oracle rejects the string it built,
\* the exchange string, the oracle handle, the mode, the edit flag and the
\* editor position keep their values, the session stays in edit mode, and
\* the status is the error of posObjToFen or the rejection message.
C20_FailedCommit ==
  [][(Runs("commitEdit") /\ CommitFails) =>
       /\ fen' = fen
       /\ chess' = chess
       /\ mode' = mode
       /\ edit' /\ edit
       /\ UNCHANGED editFields
       /\ UNCHANGED <<playMode, myColor, shownTurn, sent, channelRef, joined>>
       /\ status' # ""
       /\ LET Said(built) ==
                status' = IF built.fen = Null THEN built.error
                          ELSE "Position rejected by engine."
          IN Said(posObjToFen(editPos, editTurn, Flags))]_vars

\* a commit failed in the editor: the white king had been taken off e1
C20_Witness ==
  /\ Ran("commitEdit")
  /\ edit
  /\ CommitFails
  /\ At(editPos, Sq("e", 1)) = Undefined
  /\ At(editPos, Sq("e", 8)) = bK
  /\ status # ""
  /\ fen = StartFen
  /\ mode = "strict"

\* a commit failed because the oracle rejected the string posObjToFen built
C20_OracleRejects ==
  /\ Ran("commitEdit")
  /\ edit
  /\ status = "Position rejected by engine."

\* both sessions are subscribed, they were in the start position when the
\* second subscribed, and no message is in flight
Quiescent ==
  /\ Complete
  /\ ~peer.early
  /\ peer.got = Len(sent)
  /\ peer.given = Len(peer.s.sent)

\* C18: the two sessions of a room hold the same exchange string whenever
\* no message is in flight, whatever the order of their local moves and of
\* the deliveries was.
C18_PeersConverge == Quiescent => fen = peer.s.fen

\* the step is a commit that succeeds
CommitSucceeds == Runs("commitEdit") /\ ~CommitFails

\* the original reading of C21: after a successful commit the exchange string
\* and the oracle handle hold the encoded string, the mode is sandbox, the
\* edit flag is off and the status is empty
C21_CommitIsTruth ==
  [][CommitSucceeds =>
       LET Encoded(f) ==
             /\ fen' = f
             /\ chess' = OracleLoad(f)
             /\ mode' = "sandbox"
             /\ ~edit'
             /\ status' = ""
       IN Encoded(posObjToFen(editPos, editTurn, Flags).fen)]_vars

\* C21: a successful commit puts the session in sandbox mode with the edit
\* flag off and loads the encoded string posObjToFen(editor position, editor
\* side, castling flags).fen; the exchange string and the oracle handle hold
\* exactly that string unless the commit switched the mode from strict to
\* sandbox with the bot playing and the bot's side to move, where the bot's
\* reply is applied on top of it; the status is empty when the exchange
\* string did not change and the game-over message of the resulting position
\* (empty when the game is not over) when it did.
C21_CommitThenEffects ==
  [][CommitSucceeds =>
       LET Encoded(f) ==
             /\ mode' = "sandbox"
             /\ ~edit'
             /\ UNCHANGED editFields
             /\ IF /\ mode = "strict" /\ playMode = "bot"
                   /\ BotToMove(OracleLoad(f), Other(myColor))
                   /\ "from" \in DOMAIN best'
                  THEN /\ chess' = OracleMove(OracleLoad(f), best')
                       /\ fen' = OracleFen(chess')
                ELSE /\ fen' = f
                     /\ chess' = OracleLoad(f)
             /\ status' = IF fen' # fen THEN GameOverStatus(chess') ELSE ""
       IN Encoded(posObjToFen(editPos, editTurn, Flags).fen)]_vars

\* a commit made from strict mode succeeded: the session is in sandbox mode
\* out of edit mode, and holds the encoded string of the editor
C21_Witness ==
  /\ Ran("commitEdit")
  /\ pc = "applied"
  /\ ~edit
  /\ mode = "sandbox"
  /\ status = ""
  /\ At(editPos, Sq("d", 5)) = bP
  /\ fen = posObjToFen(editPos, editTurn, Flags).fen
  /\ chess = OracleLoad(fen)
  /\ fen # StartFen

\* after a successful commit the bot has replied: the exchange string is not
\* the encoded string of the editor
C21_BotReplied ==
  /\ Ran("commitEdit")
  /\ pc = "applied"
  /\ ~edit
  /\ "from" \in DOMAIN best
  /\ fen # posObjToFen(editPos, editTurn, Flags).fen

\* after a successful commit of a position with bare kings the status shows
\* that the game is over
C21_GameOverShown ==
  /\ Ran("commitEdit")
  /\ pc = "applied"
  /\ ~edit
  /\ status = "Game over."

\* posObjToFen returned the error of the king count
KingCountReported ==
  /\ encoded.fen = Null
  /\ encoded.error = KingCountError(CountOf(editPos, wK), CountOf(editPos, bK))

\* C22: posObjToFen validates in scan order.  A position with a pawn on rank
\* 1 or 8 and a wrong king count is refused with the pawn-rank error, not
\* the king-count error; with pawns on both rank 8 and rank 1 the error
\* names rank 8; and the king-count error is returned only for a position
\* without a pawn on rank 1 or 8.
C22_ValidationOrder ==
  Called =>
    /\ (BackRankPawnRanks(editPos) # {} /\ ~OneKingEach(editPos)) =>
         /\ encoded.fen = Null
         /\ encoded.error \in {PawnRankError(1), PawnRankError(8)}
         /\ ~KingCountReported
    /\ BackRankPawnRanks(editPos) = {1, 8} =>
         /\ encoded.fen = Null
         /\ encoded.error = PawnRankError(8)
    /\ BackRankPawnRanks(editPos) = {1} =>
         /\ encoded.fen = Null
         /\ encoded.error = PawnRankError(1)
    /\ KingCountReported => BackRankPawnRanks(editPos) = {}

\* a position with two white kings, a pawn on rank 8 and a pawn on rank 1
\* was refused with the error naming rank 8
C22_Witness ==
  /\ Called
  /\ BackRankPawnRanks(editPos) = {1, 8}
  /\ CountOf(editPos, wK) = 2
  /\ encoded.fen = Null
  /\ encoded.error = PawnRankError(8)

\* C23: the last accepted message wins.  In a session whose user does
\* nothing, each delivered "move" message whose string the oracle accepts
\* leaves the session with exactly that string as its exchange string and
\* with the oracle position loaded from it, whatever the session held before
\* and whatever was delivered earlier; a message without a string or with a
\* string the oracle rejects leaves the exchange string and the oracle
\* position as they were.  So after any sequence of deliveries the exchange
\* string is that of the most recent accepted message.
C23_LastMessageWins ==
  [][Runs("onMove") =>
       IF Rejected(event'.args[1])
         THEN fen' = fen /\ chess' = chess
       ELSE /\ fen' = PayloadFen(event'.args[1])
            /\ chess' = OracleLoad(fen')
            /\ sent' = sent]_vars

\* three messages were delivered; the last one carried a string the oracle
\* rejects, and the session holds the position of an earlier message
C23_Witness ==
  /\ pc = "listening"
  /\ steps = MaxDeliveries
  /\ Ran("onMove")
  /\ event.args[1] = [fen |-> Garbage]
  /\ fen = EndgameFen
  /\ chess = OracleLoad(EndgameFen)

\* the step delivers a message to one of the two sessions
Delivers == Runs("onMove") \/ Runs("peer.onMove")

\* C24: two writers that alternate converge.  In a room that was complete
\* before any piece moved and in which no piece was ever moved while a
\* message was in flight, the two sessions hold the same exchange string
\* whenever no message is in flight, and each delivery leaves both with the
\* string of the delivered message, which is the position after the latest
\* move.
C24_AlternatingConverge ==
  /\ []((Quiescent /\ ~peer.raced) => fen = peer.s.fen)
  /\ [][(Delivers /\ Complete /\ ~peer.early /\ ~peer'.raced) =>
         /\ fen' = peer'.s.fen
         /\ fen' = event'.args[1].fen
         /\ Quiescent'
         /\ fen' \in {OracleFen(chess), OracleFen(peer.s.chess)}]_vars

\* white moved in the first session, black answered in the second after the
\* message had arrived, and the answer has arrived in the first
C24_Witness ==
  /\ Ran("onMove")
  /\ Quiescent
  /\ ~peer.raced
  /\ Len(sent) = 1
  /\ Len(peer.s.sent) = 1
  /\ chess.turn = <<"w">>
  /\ At(chess.board, Sq("e", 5)) = bP
  /\ fen = peer.s.fen
  /\ fen = peer.s.sent[1].fen

\* after the step the editor holds what fenToPosObj reads from `text`
ScratchFrom(text) ==
  LET Read(d) ==
        /\ editPos' = d.pos
        /\ editTurn' = d.turn
        /\ castleWK' = d.castle.K /\ castleWQ' = d.castle.Q
        /\ castleBK' = d.castle.k /\ castleBQ' = d.castle.q
  IN Read(fenToPosObj(text))

\* C25: entering edit mode creates the scratch position from the current
\* exchange string.  Whenever the edit flag goes from off to on, the editor
\* position, the editor side and the four castling flags are what
\* fenToPosObj reads from the exchange string, and the exchange string is
\* not changed by the step.
C25_ScratchFromCurrent ==
  [][(~edit /\ edit') => (fen' = fen /\ ScratchFrom(fen))]_vars

\* the hooks and refs of the session that outlive a handler, the editor and
\* the room
lasting == <<fen, chess, mode, playMode, myColor, status, shownTurn, sent, edit,
             channelRef, sandboxPos, editFields, roomFields>>

\* C26: edit mode and play are separate.  While the edit flag is on,
\* onPieceDrop returns false, leaves the exchange string and the oracle
\* position as they were and sends nothing; while it is off, onSquareClick
\* changes nothing.  In edit mode a click with a palette piece selected
\* sets exactly the clicked square to that piece, a click with nothing
\* selected removes exactly that square, and every other square of the
\* editor position and the exchange string stay as they were.
C26_EditSeparation ==
  [][/\ (Runs("onPieceDrop") /\ edit) =>
          /\ returned' = Return(FALSE)
          /\ UNCHANGED lasting
     /\ (Runs("onSquareClick") /\ ~edit) => UNCHANGED lasting
     /\ (Runs("onSquareClick") /\ edit) =>
          /\ At(editPos', event'.args[1]) =
               IF selectedPalette # Null THEN selectedPalette ELSE Undefined
          /\ \A sq \in (DOMAIN editPos \cup DOMAIN editPos') \ {event'.args[1]} :
               At(editPos', sq) = At(editPos, sq)
          /\ UNCHANGED <<fen, chess, edit, editTurn, castleWK, castleWQ, castleBK,
                         castleBQ, selectedPalette, sent>>]_vars

\* in edit mode, with the black pawn selected in the palette, the user
\* clicked h1: the editor holds the start position with a black pawn on h1
\* and the session still holds the start position
C26_Witness ==
  /\ pc = "edit"
  /\ Ran("onSquareClick")
  /\ event.args[1] = Sq("h", 1)
  /\ edit
  /\ selectedPalette = bP
  /\ editPos = Put(fenToPosObj(StartFen).pos, Sq("h", 1), bP)
  /\ fen = StartFen

\* in edit mode a piece was dropped on the board and the drop was refused
C26_DropRefused ==
  /\ pc = "edit"
  /\ Ran("onPieceDrop")
  /\ edit
  /\ returned = Return(FALSE)
  /\ DropCandidate(chess, event.args[1], event.args[2])

\* the bot applied a move in the handler or the effects that ran last
BotMoved == "from" \in DOMAIN best

\* C27: the bot keeps to its turn.  A step in which the bot applies a move
\* is one where play mode is bot and the move is of the colour opposite to
\* myColor, the colour pickBotMove was called for; a step applies at most
\* one bot move and broadcasts it once; the bot does not move in two steps
\* in a row unless the second is an accepted move of the user; and when the
\* oracle lists no legal move the bot applies nothing and the exchange
\* string is unchanged.
C27_BotDiscipline ==
  [][/\ BotMoved' =>
          /\ playMode' = "bot"
          /\ best'.color = Other(myColor')
          /\ chess'.turn = myColor'
          /\ fen' = OracleFen(chess')
          /\ Len(sent') <= Len(sent) + 2
          /\ channelRef' => sent'[Len(sent')].from = best'.from
     /\ (BotMoved /\ BotMoved') =>
          Runs("onPieceDrop") /\ returned' = Return(TRUE)
     /\ ("null" \in DOMAIN best' /\ ~Runs("onPieceDrop")) => fen' = fen]_vars

\* C28: a session owns one channel.  In every reachable state at most one
\* channel of the session has a "move" handler registered, and it is the
\* channel of the room the session is in, so that no message of another
\* room can reach a handler of the session.
C28_OneChannel ==
  /\ Cardinality(opened) <= 1
  /\ opened \subseteq {room}

\* the chunks of a freeform string after "SANDBOX:" and the side
FreeformChunks(text) ==
  LET rest == SubSeq(text, Len(Sentinel) + 3, Len(text))
  IN IF rest = <<>> THEN <<>> ELSE split(rest, ",")

\* C29: the freeform string round-trips.  For every mapping and side to
\* move, the string exportFEN gives in sandbox mode starts with "SANDBOX:",
\* then the side and ":", then one piece:square pair per occupied square
\* separated by commas and nothing else (no space, so no castling or en
\* passant field); importFENText of it leaves a session in sandbox mode
\* with the same mapping and the same side to move.
C29_FreeformRoundTrip ==
  /\ pc \in {"exported", "imported"} =>
       /\ startsWith(encoded.fen, Sentinel \o shownTurn \o <<":">>)
       /\ \A i \in 1..Len(encoded.fen) : encoded.fen[i] # " "
       /\ LET Pairs(chunks) ==
                /\ Len(chunks) = Cardinality(DOMAIN sandboxPos)
                /\ {chunks[i] : i \in 1..Len(chunks)} =
                     {sandboxPos[sq] \o <<":">> \o sq : sq \in DOMAIN sandboxPos}
          IN Pairs(FreeformChunks(encoded.fen))
  /\ pc = "imported" =>
       /\ decoded.mode = "sandbox"
       /\ decoded.sandboxPos = sandboxPos
       /\ decoded.turn = shownTurn

\* a mapping without kings, with a white pawn on a8 and a black knight on
\* d5 and Black to move, came back from its string
C29_Witness ==
  /\ pc = "imported"
  /\ shownTurn = <<"b">>
  /\ DOMAIN sandboxPos = {Sq("a", 8), Sq("d", 5)}
  /\ sandboxPos[Sq("a", 8)] = wP
  /\ sandboxPos[Sq("d", 5)] = bN
  /\ decoded.sandboxPos = sandboxPos
  /\ decoded.turn = <<"b">>
  /\ decoded.mode = "sandbox"

\* the eight cells a rank group stands for: a piece symbol, or "." for each
\* square a digit counts
RECURSIVE Expanded(_, _)
Expanded(row, i) ==
  IF i > Len(row) THEN <<>>
  ELSE (IF IsDigit(row[i]) THEN [k \in 1..parseInt(row[i]) |-> "."]
        ELSE <<row[i]>>) \o Expanded(row, i + 1)

\* the cell of the square at file f (1..8) of rank r in the editor position
CellOf(f, r) ==
  LET Symbol(p) == IF p = Undefined THEN "." ELSE pieceToSymbol(p)[1]
  IN Symbol(At(editPos, Sq(FILES[f], r)))

\* C30: the placement posObjToFen emits is well formed.  It has exactly 8
\* rank groups separated by exactly 7 '/', none after rank 1; the groups
\* are ranks 8 down to 1 and list files a to h; in every group the piece
\* symbols and the digits add up to 8, no two digits are adjacent and no
\* digit is 0, an empty rank being "8".
C30_PlacementWellFormed ==
  Emitted =>
    LET Groups(placement, rows) ==
          /\ Len(rows) = 8
          /\ Cardinality({i \in 1..Len(placement) : placement[i] = "/"}) = 7
          /\ placement[Len(placement)] # "/"
          /\ \A n \in 1..8 :
               /\ RowWidth(rows[n], 1) = 8
               /\ \A i \in 1..Len(rows[n]) : rows[n][i] # "0"
               /\ \A i \in 1..(Len(rows[n]) - 1) :
                    ~(IsDigit(rows[n][i]) /\ IsDigit(rows[n][i + 1]))
               /\ Expanded(rows[n], 1) = [f \in 1..8 |-> CellOf(f, 9 - n)]
               /\ (\A f \in 1..8 : CellOf(f, 9 - n) = ".") => rows[n] = <<"8">>
        Placement(placement) == Groups(placement, split(placement, "/"))
    IN Placement(EmittedFields[1])

\* a string was emitted for a position with a knight on d5 and a pawn
\* beside it on e5, empty ranks above and below
C30_Witness ==
  /\ Emitted
  /\ At(editPos, Sq("d", 5)) = bN
  /\ At(editPos, Sq("e", 5)) = wP
  /\ At(editPos, Sq("e", 1)) = wK
  /\ split(EmittedFields[1], "/")[4] = <<"3", "n", "P", "3">>
  /\ split(EmittedFields[1], "/")[3] = <<"8">>
  /\ split(EmittedFields[1], "/")[8] = <<"4", "K", "2", "R">>

\* the step is a successful commit made right after a "move" broadcast was
\* delivered to the session in edit mode
CommitAfterRemote == Ran("onMove") /\ edit /\ CommitSucceeds

\* the original reading of C31: a "move" broadcast taken in edit mode replaces
\* the exchange string and leaves the edit flag and the editor alone, and the
\* commit made after it puts the encoded editor position in the exchange
\* string and sends nothing
C31_CommitSendsNothing ==
  [][/\ (Runs("onMove") /\ edit /\ ~Rejected(event'.args[1])) =>
          /\ fen' = PayloadFen(event'.args[1])
          /\ UNCHANGED <<edit, editFields>>
     /\ CommitAfterRemote =>
          /\ fen' = posObjToFen(editPos, editTurn, Flags).fen
          /\ sent' = sent]_vars

\* C31: a "move" broadcast that the oracle accepts and that arrives in edit
\* mode replaces the exchange string and leaves the edit flag, the editor
\* position, the editor side, the palette selection and the castling flags
\* unchanged.  A commit that succeeds right after it replaces the received
\* position with the encoded editor position and sends nothing, unless the
\* commit switched the mode from strict to sandbox with the bot playing and
\* the bot's side to move: then the bot's reply is applied on top of the
\* encoded position and is broadcast to the peer as one "move" message.
C31_RemoteThenCommit ==
  [][/\ (Runs("onMove") /\ edit /\ ~Rejected(event'.args[1])) =>
          /\ fen' = PayloadFen(event'.args[1])
          /\ UNCHANGED <<edit, editFields>>
     /\ CommitAfterRemote =>
          LET Encoded(f) ==
                IF /\ mode = "strict" /\ playMode = "bot"
                   /\ BotToMove(OracleLoad(f), Other(myColor))
                   /\ "from" \in DOMAIN best'
                  THEN /\ fen' = OracleFen(OracleMove(OracleLoad(f), best'))
                       /\ sent' = Append(sent, [from |-> best'.from, to |-> best'.to,
                                                san |-> best'.san, fen |-> fen'])
                ELSE /\ fen' = f
                     /\ sent' = sent
          IN Encoded(posObjToFen(editPos, editTurn, Flags).fen)]_vars

\* a session that entered edit mode from the start position took the endgame
\* position from its peer: it is still editing the position it entered with
C31_Witness ==
  /\ pc = "edit"
  /\ Ran("onMove")
  /\ edit
  /\ joined
  /\ fen = EndgameFen
  /\ chess = OracleLoad(EndgameFen)
  /\ editPos = fenToPosObj(StartFen).pos
  /\ editTurn = <<"w">>

\* the commit made after a received position put the editor's start position
\* back in the exchange string and sent nothing
C31_Committed ==
  /\ pc = "edit"
  /\ Ran("commitEdit")
  /\ ~edit
  /\ joined
  /\ steps = 3
  /\ mode = "sandbox"
  /\ sent = <<>>
  /\ fen = posObjToFen(editPos, editTurn, Flags).fen
  /\ At(editPos, Sq("e", 2)) = wP

\* the commit made after a received position was answered by the bot: a
\* "move" message left for the peer
C31_BotBroadcast ==
  /\ pc = "edit"
  /\ Ran("commitEdit")
  /\ ~edit
  /\ joined
  /\ Len(sent) = 1
  /\ fen # posObjToFen(editPos, editTurn, Flags).fen

\* what C32 says of a step: the session holds the start position with White
\* to move, the editor is closed and empty, the palette and the castling
\* flags are cleared, and the mode, the play mode, the room, the colour and
\* the channel are those of before, with nothing sent
ResetRestoresStart ==
  /\ fen' = StartFen
  /\ chess' = StartChess
  /\ shownTurn' = <<"w">>
  /\ ~edit'
  /\ editPos' = EmptyPos
  /\ sandboxPos' = EmptyPos
  /\ selectedPalette' = Null
  /\ ~castleWK' /\ ~castleWQ' /\ ~castleBK' /\ ~castleBQ'
  /\ UNCHANGED <<mode, playMode, room, myColor, channelRef, joined>>
  /\ sent' = sent

\* C32: resetToStart from any state sets the exchange string and the oracle
\* handle to the standard starting position with White to move, turns edit
\* mode off, empties the editor position, clears the palette selection and
\* the four castling flags, leaves the mode, the play mode, the room,
\* myColor and the channel unchanged, and sends no "move" message.
C32_ResetToStart ==
  [][Runs("resetToStart") => ResetRestoresStart]_vars

\* C32 for the page of src/pages/index.tsx alone
C32_ResetToStartIndex ==
  [][(Runs("resetToStart") /\ page = "index") => ResetRestoresStart]_vars

\* resetToStart ran on the page of src/pages/index.tsx in edit mode with a
\* position other than the start: the session is back at the start position
\* out of edit mode
C32_ResetOnIndex ==
  /\ pc = "page"
  /\ page = "index"
  /\ Ran("resetToStart")
  /\ steps = MaxSteps
  /\ fen = StartFen
  /\ chess = StartChess
  /\ ~edit
  /\ editPos = EmptyPos
  /\ mode = "sandbox"

\* resetToStart ran on the page of src/unnamed/part_001 in sandbox mode: the
\* exchange string and the oracle handle still hold the position played
\* before
C32_ResetInSandbox ==
  /\ pc = "page"
  /\ page = "part_001"
  /\ Ran("resetToStart")
  /\ mode = "sandbox"
  /\ fen # StartFen
  /\ chess # StartChess

\* resetToStart ran on the page of src/unnamed/part_001 in edit mode: the
\* editor is still open
C32_ResetWhileEditing ==
  /\ pc = "page"
  /\ page = "part_001"
  /\ Ran("resetToStart")
  /\ edit

====
